---- MODULE Spec2Model ----
(***************************************************************************)
(* A model of horned-owl: the query layer over the axiom-indexed ontology  *)
(* (src/index.rs), the IRI store (src/model.rs) and the lowering of the    *)
(* OWL functional-syntax parse tree (src/io/ofn/reader/from_pair.rs).      *)
(***************************************************************************)
EXTENDS Integers, Sequences, FiniteSets, TLC

VARIABLES
    o,          \* the AxiomMappedOntology: its annotated axioms, in insertion order
    last,       \* the last operation applied to o: [op, arg, ret]
    cache,      \* IRIBuild: the allocations the HashSet<IRI> holds a handle to
    heap,       \* the live Rc<String> allocations: id -> [str, strong]
    held,       \* the IRI handles the callers hold: [id, input, form]
    requested,  \* the strings iri() has been called with
    lastIri,    \* the last call of iri(): [op, input, ret]
    mapping,    \* the PrefixMapping of the parse context: [default, map]
    build,      \* the Build of the parse context: the strings it has interned
    debug_assertions,  \* cfg!(debug_assertions) of the build that runs
    phase,      \* "setup" while the context is prepared, "done" after a lowering
    lowered,    \* the lowering that ran: [op, args, pair, res]
    subclass,   \* Ontology.subclass of the simple model: the SubClass axioms held
    asserted,   \* the (superclass, subclass) pairs subclass_exp was called with
    onts,       \* two ontologies of the simple model, each over its own store
    log         \* the calls made on each of the two, in order

indexVars == <<o, last>>

storeVars == <<cache, heap, held, requested, lastIri>>

lowerVars == <<mapping, build, debug_assertions, phase, lowered>>

simpleVars == <<subclass, asserted, onts, log>>

vars == <<o, last, cache, heap, held, requested, lastIri,
          mapping, build, debug_assertions, phase, lowered, subclass, asserted,
          onts, log>>

(***************************************************************************)
(* Bounds                                                                  *)
(***************************************************************************)
MaxOnt == 2          \* components held by the ontology

MaxHeld == 3         \* IRI handles held by the callers of one store

(***************************************************************************)
(* Option<T>                                                               *)
(***************************************************************************)
None == [some |-> FALSE]

Some(x) == [some |-> TRUE, val |-> x]

(***************************************************************************)
(* Entities, axioms and annotated axioms of the query layer                *)
(***************************************************************************)
\* The six Declare* variants, in the order find_declaration_kind tries them.
DeclareOrder ==
    << "DeclareClass", "DeclareObjectProperty", "DeclareAnnotationProperty",
       "DeclareDataProperty", "DeclareNamedIndividual", "DeclareDatatype" >>

DeclareVariants == { DeclareOrder[k] : k \in DOMAIN DeclareOrder }

\* The NamedEntityKind each arm of find_declaration_kind returns.
NamedEntityKindOf(variant) ==
    CASE variant = "DeclareClass"              -> "Class"
      [] variant = "DeclareObjectProperty"     -> "ObjectProperty"
      [] variant = "DeclareAnnotationProperty" -> "AnnotationProperty"
      [] variant = "DeclareDataProperty"       -> "DataProperty"
      [] variant = "DeclareNamedIndividual"    -> "NamedIndividual"
      [] variant = "DeclareDatatype"           -> "Datatype"

IndexIRIs == { "http://www.example.com/c", "owl:Thing", "rdfs:label" }

Anns == { "a1", "a2" }

\* Declare*(Entity(iri)): the axiom payload
Declare(variant, iri) == [variant |-> variant, iri |-> iri]

\* AnnotatedAxiom { axiom, ann }
Annotated(axiom, ann) == [axiom |-> axiom, ann |-> ann]

\* Components the merge operations are exercised with.
MergeComponents ==
    { Annotated(Declare(v, i), ann) :
        v \in {"DeclareClass", "DeclareObjectProperty"},
        i \in {"http://www.example.com/c", "owl:Thing"},
        ann \in SUBSET Anns }

\* Components the declaration lookup is exercised with.
DeclComponents ==
    { Annotated(Declare(v, i), {}) : v \in DeclareVariants, i \in IndexIRIs }
    \cup { Annotated(Declare("DeclareDatatype", i), {"a1"}) : i \in IndexIRIs }

(***************************************************************************)
(* The axiom-indexed ontology                                              *)
(***************************************************************************)
\* AnnotatedAxiom::kind
kind(ax) == ax.axiom.variant

\* AnnotatedAxiom::logical_eq: equality of the payload, annotations ignored
logical_eq(a, b) == a.axiom = b.axiom

\* AxiomMappedOntology::annotated_axiom(kind): the components of that kind,
\* in insertion order
annotated_axiom(ont, k) == SelectSeq(ont, LAMBDA ax : kind(ax) = k)

\* an insert that merges into a logically equal component already present
insert_merging(ont, ax) ==
    IF \E i \in DOMAIN ont : logical_eq(ont[i], ax)
    THEN LET i == CHOOSE i \in DOMAIN ont : logical_eq(ont[i], ax)
         IN  [ont EXCEPT ![i] = Annotated(ax.axiom, ont[i].ann \cup ax.ann)]
    ELSE Append(ont, ax)

\* AxiomMappedOntology::insert
insert(ont, ax) == Append(ont, ax)

RemoveAt(s, i) == SubSeq(s, 1, i - 1) \o SubSeq(s, i + 1, Len(s))

\* AxiomMappedOntology::take: removes and returns an exact match
take(ont, ax) ==
    IF \E i \in DOMAIN ont : ont[i] = ax
    THEN LET i == CHOOSE i \in DOMAIN ont :
                     ont[i] = ax /\ \A j \in 1..(i - 1) : ont[j] # ax
         IN  [o |-> RemoveAt(ont, i), ret |-> Some(ont[i])]
    ELSE [o |-> ont, ret |-> None]

\* vocab::to_built_in_entity: the built-in vocabulary table
to_built_in_entity(iri) ==
    CASE iri = "owl:Thing"  -> Some("Class")
      [] iri = "rdfs:label" -> Some("AnnotationProperty")
      [] OTHER              -> None

(***************************************************************************)
(* src/index.rs                                                            *)
(***************************************************************************)
\* a find that compares whole components, annotations included
find_exact_axiom(ont, axiom) ==
    LET found == SelectSeq(annotated_axiom(ont, kind(axiom)),
                           LAMBDA ax : ax = axiom)
    IN  IF found = <<>> THEN None ELSE Some(Head(found))

\* a find that returns its argument when a logically equal component is held
find_returning_argument(ont, axiom) ==
    LET found == SelectSeq(annotated_axiom(ont, kind(axiom)),
                           LAMBDA ax : logical_eq(ax, axiom))
    IN  IF found = <<>> THEN None ELSE Some(axiom)

\* a find that returns the match inserted last
find_last_logically_equal_axiom(ont, axiom) ==
    LET found == SelectSeq(annotated_axiom(ont, kind(axiom)),
                           LAMBDA ax : logical_eq(ax, axiom))
    IN  IF found = <<>> THEN None ELSE Some(found[Len(found)])

find_logically_equal_axiom(ont, axiom) ==
    LET found == SelectSeq(annotated_axiom(ont, kind(axiom)),
                           LAMBDA ax : logical_eq(ax, axiom))
    IN  IF found = <<>> THEN None ELSE Some(Head(found))

\* an update that takes every component of the kind of its argument
update_clearing_kind(ont, axiom) ==
    LET some_eq_axiom == find_logically_equal_axiom(ont, axiom)
    IN  IF some_eq_axiom.some
        THEN [o |-> insert(SelectSeq(ont, LAMBDA ax : kind(ax) # kind(axiom)),
                           Annotated(axiom.axiom,
                                     axiom.ann \cup some_eq_axiom.val.ann)),
              ret |-> "merged"]
        ELSE [o |-> insert(ont, axiom), ret |-> "inserted"]

\* an update that drops the annotations of the component it takes
update_without_merge(ont, axiom) ==
    LET some_eq_axiom == find_logically_equal_axiom(ont, axiom)
    IN  IF some_eq_axiom.some
        THEN LET taken == take(ont, some_eq_axiom.val)
             IN  IF ~taken.ret.some
                 THEN [o |-> ont, ret |-> "panic"]
                 ELSE [o |-> insert(taken.o, axiom), ret |-> "merged"]
        ELSE [o |-> insert(ont, axiom), ret |-> "inserted"]

\* an update that inserts the merged component and leaves the match in place
update_without_take(ont, axiom) ==
    LET some_eq_axiom == find_logically_equal_axiom(ont, axiom)
    IN  IF some_eq_axiom.some
        THEN [o |-> insert(ont, Annotated(axiom.axiom,
                                          axiom.ann \cup some_eq_axiom.val.ann)),
              ret |-> "merged"]
        ELSE [o |-> insert(ont, axiom), ret |-> "inserted"]

\* The ontology after the call; ret is "panic" when the unwrap of take's
\* result aborts.
update_logically_equal_axiom(ont, axiom) ==
    LET some_eq_axiom == find_logically_equal_axiom(ont, axiom)
    IN  IF some_eq_axiom.some
        THEN LET taken == take(ont, some_eq_axiom.val)
             IN  IF ~taken.ret.some
                 THEN [o |-> ont, ret |-> "panic"]
                 ELSE [o |-> insert(taken.o,
                                    Annotated(axiom.axiom,
                                              axiom.ann \cup taken.ret.val.ann)),
                       ret |-> "merged"]
        ELSE [o |-> insert(ont, axiom), ret |-> "inserted"]

IsDeclared(ont, variant, iri) ==
    find_logically_equal_axiom(ont, Annotated(Declare(variant, iri), {})).some

\* a lookup that asks the built-in table first
find_declaration_kind_table_first(ont, iri) ==
    IF to_built_in_entity(iri).some THEN to_built_in_entity(iri)
    ELSE IF \E k \in DOMAIN DeclareOrder : IsDeclared(ont, DeclareOrder[k], iri)
    THEN LET k == CHOOSE k \in DOMAIN DeclareOrder :
                     /\ IsDeclared(ont, DeclareOrder[k], iri)
                     /\ \A j \in 1..(k - 1) : ~IsDeclared(ont, DeclareOrder[j], iri)
         IN  Some(NamedEntityKindOf(DeclareOrder[k]))
    ELSE None

\* a lookup that returns the kind of the declaration inserted first
find_declaration_kind_insertion_order(ont, iri) ==
    LET decls == SelectSeq(ont, LAMBDA ax : ax.axiom.iri = iri)
    IN  IF decls # <<>> THEN Some(NamedEntityKindOf(kind(Head(decls))))
        ELSE to_built_in_entity(iri)

\* a lookup whose Datatype arm is missing
find_declaration_kind_five_arms(ont, iri) ==
    IF IsDeclared(ont, "DeclareClass", iri) THEN Some("Class")
    ELSE IF IsDeclared(ont, "DeclareObjectProperty", iri) THEN Some("ObjectProperty")
    ELSE IF IsDeclared(ont, "DeclareAnnotationProperty", iri)
         THEN Some("AnnotationProperty")
    ELSE IF IsDeclared(ont, "DeclareDataProperty", iri) THEN Some("DataProperty")
    ELSE IF IsDeclared(ont, "DeclareNamedIndividual", iri)
         THEN Some("NamedIndividual")
    ELSE to_built_in_entity(iri)

find_declaration_kind(ont, iri) ==
    IF IsDeclared(ont, "DeclareClass", iri) THEN Some("Class")
    ELSE IF IsDeclared(ont, "DeclareObjectProperty", iri) THEN Some("ObjectProperty")
    ELSE IF IsDeclared(ont, "DeclareAnnotationProperty", iri)
         THEN Some("AnnotationProperty")
    ELSE IF IsDeclared(ont, "DeclareDataProperty", iri) THEN Some("DataProperty")
    ELSE IF IsDeclared(ont, "DeclareNamedIndividual", iri)
         THEN Some("NamedIndividual")
    ELSE IF IsDeclared(ont, "DeclareDatatype", iri) THEN Some("Datatype")
    ELSE to_built_in_entity(iri)

(***************************************************************************)
(* Operations on the ontology                                              *)
(***************************************************************************)
InitIndex ==
    /\ o = <<>>
    /\ last = [op |-> "default"]

Insert(U) ==
    \E ax \in U :
        /\ Len(o) < MaxOnt
        /\ o' = insert(o, ax)
        /\ last' = [op |-> "insert", arg |-> ax, ret |-> "ok"]
        /\ UNCHANGED <<storeVars, lowerVars, simpleVars>>

Take(U) ==
    \E ax \in U :
        LET taken == take(o, ax)
        IN  /\ o' = taken.o
            /\ last' = [op |-> "take", arg |-> ax, ret |-> taken.ret]
            /\ UNCHANGED <<storeVars, lowerVars, simpleVars>>

Find(U) ==
    \E ax \in U :
        /\ last' = [op |-> "find_logically_equal_axiom", arg |-> ax,
                    ret |-> find_logically_equal_axiom(o, ax)]
        /\ o' = o
        /\ UNCHANGED <<storeVars, lowerVars, simpleVars>>

Update(U) ==
    \E ax \in U :
        LET r == update_logically_equal_axiom(o, ax)
        IN  /\ Len(r.o) <= MaxOnt
            /\ o' = r.o
            /\ last' = [op |-> "update_logically_equal_axiom", arg |-> ax,
                        ret |-> r.ret]
            /\ UNCHANGED <<storeVars, lowerVars, simpleVars>>

FindDeclarationKind ==
    \E iri \in IndexIRIs :
        /\ last' = [op |-> "find_declaration_kind", arg |-> iri,
                    ret |-> find_declaration_kind(o, iri)]
        /\ o' = o
        /\ UNCHANGED <<storeVars, lowerVars, simpleVars>>

(***************************************************************************)
(* src/model.rs: IRI and IRIBuild                                          *)
(***************************************************************************)
Strs == { "http://example.com", "http://www.example.com" }

\* Rc::new: the allocation a new Rc gets, with one strong reference
FreshId(h) ==
    CHOOSE n \in 1..(Cardinality(DOMAIN h) + 1) :
        n \notin DOMAIN h /\ \A m \in 1..(n - 1) : m \in DOMAIN h

RcNew(h, str) ==
    LET n == FreshId(h)
    IN  [heap |-> [m \in DOMAIN h \cup {n} |->
                      IF m = n THEN [str |-> str, strong |-> 1] ELSE h[m]],
         id |-> n]

\* Rc::clone: one more strong reference to the same allocation
RcClone(h, id) == [h EXCEPT ![id].strong = @ + 1]

\* Drop for Rc: one strong reference less; the allocation is freed at zero
RcDrop(h, id) ==
    IF h[id].strong = 1
    THEN [m \in DOMAIN h \ {id} |-> h[m]]
    ELSE [h EXCEPT ![id].strong = @ - 1]

\* IRI equality and hashing are those of the string behind the Rc
IRI_eq(h, a, b) == h[a].str = h[b].str

\* HashSet::contains
cache_contains(c, h, id) == \E e \in c : IRI_eq(h, e, id)

\* a lookup that returns whichever entry the set yields first
cache_get_any(c, h, id) == CHOOSE e \in c : TRUE

\* HashSet::get
cache_get(c, h, id) == CHOOSE e \in c : IRI_eq(h, e, id)

\* an iri() that hands out the handle it has just built also when the string
\* is in the cache
IRIBuild_iri_fresh(c, h, str) ==
    LET new == RcNew(h, str)
        iri == new.id
    IN  IF cache_contains(c, new.heap, iri)
        THEN [cache |-> c, heap |-> new.heap, ret |-> iri]
        ELSE [cache |-> c \cup {iri}, heap |-> RcClone(new.heap, iri), ret |-> iri]

\* IRIBuild::iri on the String that s.into() gave
IRIBuild_iri(c, h, str) ==
    LET new == RcNew(h, str)
        iri == new.id
    IN  IF cache_contains(c, new.heap, iri)
        THEN LET e == cache_get(c, new.heap, iri)
             IN  [cache |-> c,
                  heap  |-> RcDrop(RcClone(new.heap, e), iri),
                  ret   |-> e]
        ELSE [cache |-> c \cup {iri}, heap |-> RcClone(new.heap, iri), ret |-> iri]

InitStore ==
    /\ cache = {}
    /\ heap = <<>>
    /\ held = <<>>
    /\ requested = {}
    /\ lastIri = [op |-> "new"]

\* iri(s) for an owned String or a string slice: into() moves or copies s
IriFromText(form) ==
    \E str \in Strs :
        LET r == IRIBuild_iri(cache, heap, str)
        IN  /\ Len(held) < MaxHeld
            /\ cache' = r.cache
            /\ heap' = r.heap
            /\ held' = Append(held, [id |-> r.ret, input |-> str, form |-> form])
            /\ requested' = requested \cup {str}
            /\ lastIri' = [op |-> form, input |-> str, ret |-> r.ret]
            /\ UNCHANGED <<indexVars, lowerVars, simpleVars>>

IriFromString == IriFromText("String")

IriFromStr == IriFromText("str")

\* iri(i) for an IRI: From<IRI> for String clones the string behind the
\* handle, and the handle is dropped
IriFromIri ==
    \E k \in DOMAIN held :
        LET str == heap[held[k].id].str
            h1  == RcDrop(heap, held[k].id)
            r   == IRIBuild_iri(cache, h1, str)
        IN  /\ cache' = r.cache
            /\ heap' = r.heap
            /\ held' = Append(RemoveAt(held, k),
                              [id |-> r.ret, input |-> str, form |-> "IRI"])
            /\ requested' = requested \cup {str}
            /\ lastIri' = [op |-> "IRI", input |-> str, ret |-> r.ret]
            /\ UNCHANGED <<indexVars, lowerVars, simpleVars>>

\* IRI::clone by a caller
CloneIri ==
    \E k \in DOMAIN held :
        /\ Len(held) < MaxHeld
        /\ heap' = RcClone(heap, held[k].id)
        /\ held' = Append(held, held[k])
        /\ UNCHANGED <<cache, requested, lastIri>>
        /\ UNCHANGED <<indexVars, lowerVars, simpleVars>>

\* a caller drops an IRI
DropIri ==
    \E k \in DOMAIN held :
        /\ heap' = RcDrop(heap, held[k].id)
        /\ held' = RemoveAt(held, k)
        /\ UNCHANGED <<cache, requested, lastIri>>
        /\ UNCHANGED <<indexVars, lowerVars, simpleVars>>

NextStore == IriFromString \/ IriFromStr \/ IriFromIri \/ CloneIri \/ DropIri

(***************************************************************************)
(* src/model.rs: the subclass axioms of the simple ontology                *)
(***************************************************************************)
SimpleClasses ==
    { "http://www.example.com/super", "http://www.example.com/sub",
      "http://www.example.com/subsub" }

\* ClassExpression::Class(c) and ClassExpression::Not{ce}
Simple_Class(c) == [ce |-> "Class", c |-> c]

Simple_Not(ce) == [ce |-> "Not", v |-> ce]

\* SubClass{superclass, subclass}
SubClass(superclass, sub) == [superclass |-> superclass, subclass |-> sub]

\* the pairs of class expressions subclass_exp is called with
ExpressionPairs ==
    { SubClass(Simple_Not(Simple_Class("http://www.example.com/sub")),
               Simple_Class("http://www.example.com/super")),
      SubClass(Simple_Class("http://www.example.com/super"),
               Simple_Not(Simple_Class("http://www.example.com/sub"))) }

\* Ontology::subclass_exp: the set after the call and the axiom returned
subclass_exp(S, superclass, sub) ==
    [subclass |-> IF SubClass(superclass, sub) \in S THEN S
                  ELSE S \cup { SubClass(superclass, sub) },
     ret      |-> SubClass(superclass, sub)]

\* Ontology::direct_subclass_exp: the elements of the Vec, which come in the
\* iteration order of the HashSet
direct_subclass_exp(S, c) == { sc.subclass : sc \in { sc \in S : sc.superclass = c } }

\* Ontology::direct_subclass
direct_subclass(S, c) == direct_subclass_exp(S, Simple_Class(c))

\* a query that matches an axiom in either direction
is_subclass_exp_either_way(S, superclass, sub) ==
    \E sc \in S : \/ sc.superclass = superclass /\ sc.subclass = sub
                  \/ sc.superclass = sub /\ sc.subclass = superclass

\* Ontology::is_subclass_exp
is_subclass_exp(S, superclass, sub) ==
    \E sc \in S : sc.superclass = superclass /\ sc.subclass = sub

\* Ontology::is_subclass
is_subclass(S, superclass, sub) ==
    is_subclass_exp(S, Simple_Class(superclass), Simple_Class(sub))

\* Ontology::new: an empty ontology over a store of its own
Ontology_new ==
    [iri_build |-> {}, id |-> [iri |-> None, viri |-> None],
     class |-> {}, subclass |-> {}, object_property |-> {}]

\* Ontology::new
InitSimple ==
    /\ subclass = {}
    /\ asserted = {}
    /\ onts = [k \in 1..2 |-> Ontology_new]
    /\ log = [k \in 1..2 |-> <<>>]

\* o.subclass(sup, sub)
Subclass ==
    \E superclass \in SimpleClasses, sub \in SimpleClasses :
        /\ subclass' = subclass_exp(subclass, Simple_Class(superclass),
                                    Simple_Class(sub)).subclass
        /\ asserted' = asserted \cup { <<Simple_Class(superclass), Simple_Class(sub)>> }
        /\ UNCHANGED <<onts, log>>
        /\ UNCHANGED <<indexVars, storeVars, lowerVars>>

\* o.subclass_exp(sup, sub)
SubclassExp ==
    \E p \in ExpressionPairs :
        /\ subclass' = subclass_exp(subclass, p.superclass, p.subclass).subclass
        /\ asserted' = asserted \cup { <<p.superclass, p.subclass>> }
        /\ UNCHANGED <<onts, log>>
        /\ UNCHANGED <<indexVars, storeVars, lowerVars>>

NextSimple == Subclass \/ SubclassExp

(***************************************************************************)
(* src/model.rs: two simple ontologies and their equality                  *)
(***************************************************************************)
MaxCalls == 2        \* calls made on each of the two ontologies

\* An IRI is an Rc<String>: the string, and the store whose allocation it is
Handle(str, store) == [str |-> str, store |-> store]

\* PartialEq of IRI, Class, ObjectProperty (derived): that of the strings
Rc_eq(a, b) == a.str = b.str

\* PartialEq of SubClass (derived) over ClassExpression::Class operands
SubClass_eq(a, b) ==
    Rc_eq(a.superclass.c, b.superclass.c) /\ Rc_eq(a.subclass.c, b.subclass.c)

\* PartialEq of Option<IRI>
Option_eq(a, b) ==
    IF a.some /\ b.some THEN Rc_eq(a.val, b.val) ELSE a.some = b.some

\* Ontology::iri on the ontology numbered k
Ontology_iri(ontology, k, s) ==
    [o |-> [ontology EXCEPT !.iri_build = @ \cup {s}], ret |-> Handle(s, k)]

\* Ontology::class_from_iri
Ontology_class_from_iri(ontology, i) ==
    IF \E c \in ontology.class : Rc_eq(c, i) THEN ontology
    ELSE [ontology EXCEPT !.class = @ \cup {i}]

\* Ontology::class
Ontology_class(ontology, k, s) ==
    Ontology_class_from_iri(Ontology_iri(ontology, k, s).o,
                            Ontology_iri(ontology, k, s).ret)

\* Ontology::object_property_from_iri
Ontology_object_property_from_iri(ontology, i) ==
    IF \E p \in ontology.object_property : Rc_eq(p, i) THEN ontology
    ELSE [ontology EXCEPT !.object_property = @ \cup {i}]

\* Ontology::object_property
Ontology_object_property(ontology, k, s) ==
    Ontology_object_property_from_iri(Ontology_iri(ontology, k, s).o,
                                      Ontology_iri(ontology, k, s).ret)

\* Ontology::subclass on two classes
Ontology_subclass(ontology, superclass, sub) ==
    LET sc == SubClass(Simple_Class(superclass), Simple_Class(sub))
    IN  IF \E held_sc \in ontology.subclass : SubClass_eq(held_sc, sc) THEN ontology
        ELSE [ontology EXCEPT !.subclass = @ \cup {sc}]

\* PartialEq of HashSet: the same length and every element of one in the other
HashSet_eq_iri(A, B) ==
    Cardinality(A) = Cardinality(B) /\ \A a \in A : \E b \in B : Rc_eq(a, b)

HashSet_eq_subclass(A, B) ==
    Cardinality(A) = Cardinality(B) /\ \A a \in A : \E b \in B : SubClass_eq(a, b)

\* PartialEq of OntologyID (derived)
OntologyID_eq(a, b) == Option_eq(a.iri, b.iri) /\ Option_eq(a.viri, b.viri)

\* an equality that also compares the stores
Ontology_eq_with_build(a, b) ==
    /\ a.iri_build = b.iri_build
    /\ OntologyID_eq(a.id, b.id)
    /\ HashSet_eq_iri(a.class, b.class)
    /\ HashSet_eq_subclass(a.subclass, b.subclass)
    /\ HashSet_eq_iri(a.object_property, b.object_property)

\* impl PartialEq for Ontology
Ontology_eq(a, b) ==
    /\ OntologyID_eq(a.id, b.id)
    /\ HashSet_eq_iri(a.class, b.class)
    /\ HashSet_eq_subclass(a.subclass, b.subclass)
    /\ HashSet_eq_iri(a.object_property, b.object_property)

EqStrs == { "http://www.example.com/a", "http://www.example.com/b" }

\* One call on the ontology k; the log keeps what was called, in order.
Called(k, call, after) ==
    /\ Len(log[k]) < MaxCalls
    /\ onts' = [onts EXCEPT ![k] = after]
    /\ log' = [log EXCEPT ![k] = Append(@, call)]
    /\ UNCHANGED <<subclass, asserted>>
    /\ UNCHANGED <<indexVars, storeVars, lowerVars>>

\* o.iri(s)
EqIri ==
    \E k \in 1..2 :
        Called(k, [op |-> "iri"],
               Ontology_iri(onts[k], k, "http://www.example.com/c").o)

\* o.class(s)
EqClass ==
    \E k \in 1..2, s \in EqStrs :
        Called(k, [op |-> "class", s |-> s], Ontology_class(onts[k], k, s))

\* o.class_from_iri(i) with an IRI of the other ontology's store
EqClassFromIri ==
    \E k \in 1..2 :
        /\ "http://www.example.com/a" \in onts[3 - k].iri_build
        /\ Called(k, [op |-> "class", s |-> "http://www.example.com/a"],
                  Ontology_class_from_iri(onts[k],
                                          Handle("http://www.example.com/a", 3 - k)))

\* o.object_property(s)
EqObjectProperty ==
    \E k \in 1..2 :
        Called(k, [op |-> "object_property", s |-> "http://www.example.com/a"],
               Ontology_object_property(onts[k], k, "http://www.example.com/a"))

\* o.subclass(Class(o.iri(a)), Class(o.iri(b)))
EqSubclass ==
    \E k \in 1..2 :
        Called(k, [op |-> "subclass"],
               Ontology_subclass(
                   Ontology_iri(Ontology_iri(onts[k], k, "http://www.example.com/a").o,
                                k, "http://www.example.com/b").o,
                   Handle("http://www.example.com/a", k),
                   Handle("http://www.example.com/b", k)))

\* o.id.iri = Some(o.iri(a))
EqSetId ==
    \E k \in 1..2 :
        Called(k, [op |-> "id"],
               [Ontology_iri(onts[k], k, "http://www.example.com/a").o
                    EXCEPT !.id.iri = Some(Handle("http://www.example.com/a", k))])

NextEq == EqIri \/ EqClass \/ EqClassFromIri \/ EqObjectProperty \/ EqSubclass \/ EqSetId

(***************************************************************************)
(* Parse trees: what the lexer hands to the lowering                       *)
(***************************************************************************)
\* Text is a sequence of characters.
OWL_NS == <<"o", "#">>

RDFS_NS == <<"r", "#">>

EX_NS == <<"h", "/">>

XSD_NS == <<"x", "#">>

RDF_NS == <<"f", "#">>

\* OWL::Thing.iri_str()
OWL_Thing == OWL_NS \o <<"T">>

\* OWL2Datatype::RDFSLiteral.iri_str()
RDFS_Literal == RDFS_NS \o <<"L">>

\* A node with children, and a token with text; spans are set by Layout.
T(rule, inner) == [rule |-> rule, str |-> <<>>, inner |-> inner, span |-> <<>>]

L(rule, str) == [rule |-> rule, str |-> str, inner |-> <<>>, span |-> <<>>]

\* Characters a rule writes before, between and after its children.
Lead(rule) ==
    CASE rule \in {"IRI", "AbbreviatedIRI", "PNAME_LN", "PNAME_NS", "PN_PREFIX",
                   "PN_LOCAL", "IRIREF", "NonNegativeInteger", "ClassExpression",
                   "DataRange", "ObjectPropertyExpression", "Class", "Datatype",
                   "ObjectProperty", "DataProperty", "AnnotationProperty",
                   "AnnotationValue", "Annotations", "Axiom", "OntologyDocument",
                   "PrefixName", "OntologyIRI", "VersionIRI", "Imports",
                   "OntologyAnnotations", "Axioms", "AxiomOrRule",
                   "ConstrainingFacet"} -> 0
      [] rule = "FullIRI" -> 1
      [] OTHER -> 2

Trail(rule) ==
    CASE rule \in {"IRI", "AbbreviatedIRI", "PNAME_LN", "PN_PREFIX",
                   "PN_LOCAL", "IRIREF", "NonNegativeInteger", "ClassExpression",
                   "DataRange", "ObjectPropertyExpression", "Class", "Datatype",
                   "ObjectProperty", "DataProperty", "AnnotationProperty",
                   "AnnotationValue", "Annotations", "Axiom", "OntologyDocument",
                   "PrefixName", "OntologyIRI", "VersionIRI", "Imports",
                   "OntologyAnnotations", "Axioms", "AxiomOrRule",
                   "ConstrainingFacet"} -> 0
      [] OTHER -> 1

Gap(rule) == IF Lead(rule) = 2 THEN 1 ELSE 0

RECURSIVE Width(_)
RECURSIVE WidthAll(_, _)
WidthAll(ts, gap) ==
    IF ts = <<>> THEN 0
    ELSE Width(Head(ts)) + (IF Len(ts) > 1 THEN gap ELSE 0) + WidthAll(Tail(ts), gap)

Width(t) == Lead(t.rule) + Len(t.str) + WidthAll(t.inner, Gap(t.rule)) + Trail(t.rule)

\* Pair::as_span of every node of a tree whose text starts at pos: a
\* child starts where the one before it ends, and Width(t) after pos is
\* where t ends
RECURSIVE Layout(_, _)
RECURSIVE LayoutAll(_, _, _)
LayoutAll(ts, pos, gap) ==
    IF ts = <<>> THEN <<>>
    ELSE CHOOSE y \in { <<first>> \o LayoutAll(Tail(ts), first.span[2] + gap, gap) :
                        first \in { Layout(Head(ts), pos) } } : TRUE

Layout(t, pos) ==
    CHOOSE y \in {
        [rule  |-> t.rule,
         str   |-> t.str,
         inner |-> inner,
         span  |-> <<pos, (IF inner = <<>> THEN pos + Lead(t.rule) + Len(t.str)
                           ELSE inner[Len(inner)].span[2]) + Trail(t.rule)>>] :
        inner \in { LayoutAll(t.inner, pos + Lead(t.rule), Gap(t.rule)) } } : TRUE

\* prefix:local, with prefix an Option
AbbreviatedIRI_t(prefix, local) ==
    T("IRI", << T("AbbreviatedIRI", << T("PNAME_LN",
        << T("PNAME_NS", IF prefix.some THEN << L("PN_PREFIX", prefix.val) >>
                                        ELSE <<>>),
           L("PN_LOCAL", local) >>) >>) >>)

\* <iri>
FullIRI_t(iri) == T("IRI", << T("FullIRI", << L("IRIREF", iri) >>) >>)

(***************************************************************************)
(* The parse context                                                       *)
(***************************************************************************)
PrefixNames == { <<"e", "x">>, <<"o", "w", "l">> }

Namespaces == { EX_NS, OWL_NS, XSD_NS }

Locals == { <<"T">>, <<"#", "T">> }

\* PrefixMapping::default()
PrefixMapping_default == [default |-> None, map |-> <<>>]

\* PrefixMapping::add_prefix
add_prefix(pm, name, iri) ==
    [pm EXCEPT !.map = [n \in DOMAIN pm.map \cup {name} |->
                           IF n = name THEN iri ELSE pm.map[n]]]

\* PrefixMapping::set_default
set_default(pm, iri) == [pm EXCEPT !.default = Some(iri)]

\* Curie::new
Curie_new(prefix, reference) == [prefix |-> prefix, reference |-> reference]

\* PrefixMapping::expand_curie
expand_curie(pm, curie) ==
    IF curie.prefix.some
    THEN IF curie.prefix.val \in DOMAIN pm.map
         THEN [ok |-> TRUE, val |-> pm.map[curie.prefix.val] \o curie.reference]
         ELSE [ok |-> FALSE, err |-> "Invalid"]
    ELSE IF pm.default.some
         THEN [ok |-> TRUE, val |-> pm.default.val \o curie.reference]
         ELSE [ok |-> FALSE, err |-> "MissingDefault"]

\* Build::iri: the IRI of the string, interned in the store
Build_iri(b, str) == [iri |-> str, build |-> b \cup {str}]

\* Context { build, mapping }, with the flavour of the build that runs
Context(b, pm, dbg) == [build |-> b, mapping |-> pm, debug |-> dbg]

WithBuild(ctx, b) == [ctx EXCEPT !.build = b]

(***************************************************************************)
(* src/io/ofn/reader/from_pair.rs                                          *)
(***************************************************************************)
\* Result<T>, with the store as the call left it
Ok(v, b) == [st |-> "ok", val |-> v, build |-> b]

Err(e, b) == [st |-> "err", err |-> e, build |-> b]

\* unreachable!, unimplemented!, a failed unwrap or expect
Panic(msg, b) == [st |-> "panic", msg |-> msg, build |-> b]

\* HornedError::invalid_at
invalid_at(msg, span) == [error |-> "invalid", msg |-> msg, span |-> span]

\* FromPair::from_pair: the rule check of a debug build
RuleMismatch(pair, RULE, ctx) == ctx.debug /\ pair.rule # RULE

RuleError(pair, RULE, ctx) ==
    Err([error |-> "parse", positives |-> <<pair.rule>>, negatives |-> <<RULE>>,
         span |-> pair.span], ctx.build)

\* r?: an Ok goes on to F, an error or a panic leaves the function
AndThen(r, F(_)) ==
    CHOOSE y \in { IF x.st = "ok" THEN F(x) ELSE x : x \in {r} } : TRUE

\* r.map(G): G on the value of an Ok
MapOk(r, G(_)) == AndThen(r, LAMBDA x : Ok(G(x.val), x.build))

\* build.iri(s) as a lowering result
IriOk(i) == Ok(i.iri, i.build)

\* the parts of prefix:local under an AbbreviatedIRI node
PnameOf(inner) == inner.inner[1].inner

PrefixOf(inner) ==
    IF PnameOf(inner)[1].inner = <<>> THEN None
    ELSE Some(PnameOf(inner)[1].inner[1].str)

LocalOf(inner) == PnameOf(inner)[2]

\* the .map_err of expand_curie
ExpansionError(err, span, b) ==
    IF err = "Invalid"
    THEN Err(invalid_at("undefined prefix", span), b)
    ELSE Err(invalid_at("missing default prefix", span), b)

Expanded(e, span, ctx) ==
    IF e.ok THEN IriOk(Build_iri(ctx.build, e.val))
    ELSE ExpansionError(e.err, span, ctx.build)

\* an IRI lowering that reports the span of the local part
IRI_from_pair_unchecked_local_span(pair, ctx) ==
    CHOOSE y \in {
        IF inner.rule = "AbbreviatedIRI"
        THEN Expanded(expand_curie(ctx.mapping,
                                   Curie_new(PrefixOf(inner), LocalOf(inner).str)),
                      LocalOf(inner).span, ctx)
        ELSE IF inner.rule = "FullIRI"
        THEN IriOk(Build_iri(ctx.build, inner.inner[1].str))
        ELSE Panic("unexpected rule in IRI::from_pair", ctx.build)
        : inner \in {pair.inner[1]} } : TRUE

\* impl FromPair for IRI
IRI_from_pair_unchecked(pair, ctx) ==
    CHOOSE y \in {
        IF inner.rule = "AbbreviatedIRI"
        THEN Expanded(expand_curie(ctx.mapping,
                                   Curie_new(PrefixOf(inner), LocalOf(inner).str)),
                      inner.span, ctx)
        ELSE IF inner.rule = "FullIRI"
        THEN IriOk(Build_iri(ctx.build, inner.inner[1].str))
        ELSE Panic("unexpected rule in IRI::from_pair", ctx.build)
        : inner \in {pair.inner[1]} } : TRUE

IRI_from_pair(pair, ctx) ==
    IF RuleMismatch(pair, "IRI", ctx) THEN RuleError(pair, "IRI", ctx)
    ELSE IRI_from_pair_unchecked(pair, ctx)

\* impl_wrapper!: Class, Datatype, ObjectProperty, DataProperty around an IRI
Wrapper_from_pair(ty, RULE, pair, ctx) ==
    IF RuleMismatch(pair, RULE, ctx) THEN RuleError(pair, RULE, ctx)
    ELSE MapOk(IRI_from_pair(pair.inner[1], ctx),
               LAMBDA iri : [ty |-> ty, iri |-> iri])

Class_from_pair(pair, ctx) == Wrapper_from_pair("Class", "Class", pair, ctx)

Datatype_from_pair(pair, ctx) == Wrapper_from_pair("Datatype", "Datatype", pair, ctx)

ObjectProperty_from_pair(pair, ctx) ==
    Wrapper_from_pair("ObjectProperty", "ObjectProperty", pair, ctx)

DataProperty_from_pair(pair, ctx) ==
    Wrapper_from_pair("DataProperty", "DataProperty", pair, ctx)

\* A u32 is written as its decimal numeral without leading zeros.
Digits == [c \in {"0", "1", "2", "3", "4", "5", "6", "7", "8", "9"} |->
              CASE c = "0" -> 0 [] c = "1" -> 1 [] c = "2" -> 2 [] c = "3" -> 3
                [] c = "4" -> 4 [] c = "5" -> 5 [] c = "6" -> 6 [] c = "7" -> 7
                [] c = "8" -> 8 [] c = "9" -> 9]

\* u32::MAX, 4294967295
U32_MAX == <<4, 2, 9, 4, 9, 6, 7, 2, 9, 5>>

RECURSIVE StripZeros(_)
StripZeros(ds) ==
    IF Len(ds) > 1 /\ Head(ds) = 0 THEN StripZeros(Tail(ds)) ELSE ds

RECURSIVE NumeralGreater(_, _)
NumeralGreater(a, b) ==
    IF Len(a) # Len(b) THEN Len(a) > Len(b)
    ELSE IF a = <<>> THEN FALSE
    ELSE IF Head(a) # Head(b) THEN Head(a) > Head(b)
    ELSE NumeralGreater(Tail(a), Tail(b))

\* u32::from_str: the value, or an error for an empty text, a character that
\* is no digit, or a value above u32::MAX
u32_from_str(str) ==
    IF str = <<>> \/ \E i \in DOMAIN str : str[i] \notin DOMAIN Digits
    THEN [ok |-> FALSE]
    ELSE CHOOSE y \in { IF NumeralGreater(n, U32_MAX) THEN [ok |-> FALSE]
                        ELSE [ok |-> TRUE, val |-> n] :
                        n \in { StripZeros([i \in DOMAIN str |-> Digits[str[i]]]) } }
              : TRUE

\* impl FromPair for u32
u32_from_pair_unchecked(pair, ctx) ==
    CHOOSE y \in { IF r.ok THEN Ok(r.val, ctx.build)
                   ELSE Panic("cannot fail with the right rule", ctx.build) :
                   r \in { u32_from_str(pair.str) } } : TRUE

u32_from_pair(pair, ctx) ==
    IF RuleMismatch(pair, "NonNegativeInteger", ctx)
    THEN RuleError(pair, "NonNegativeInteger", ctx)
    ELSE u32_from_pair_unchecked(pair, ctx)

\* impl FromPair for ObjectPropertyExpression
ObjectPropertyExpression_from_pair_unchecked(pair, ctx) ==
    IF pair.inner[1].rule = "ObjectProperty"
    THEN MapOk(ObjectProperty_from_pair(pair.inner[1], ctx),
               LAMBDA op : [ope |-> "ObjectProperty", op |-> op])
    ELSE IF pair.inner[1].rule = "InverseObjectProperty"
    THEN MapOk(ObjectProperty_from_pair(pair.inner[1].inner[1], ctx),
               LAMBDA op : [ope |-> "InverseObjectProperty", op |-> op])
    ELSE Panic("unexpected rule in ObjectPropertyExpression::from_pair", ctx.build)

ObjectPropertyExpression_from_pair(pair, ctx) ==
    IF RuleMismatch(pair, "ObjectPropertyExpression", ctx)
    THEN RuleError(pair, "ObjectPropertyExpression", ctx)
    ELSE ObjectPropertyExpression_from_pair_unchecked(pair, ctx)

\* impl FromPair for DataRange: the Datatype, DataIntersectionOf,
\* DataUnionOf and DataComplementOf arms
RECURSIVE DataRange_from_pair(_, _)
RECURSIVE DataRange_collect(_, _)
\* .map(|pair| Self::from_pair(pair, ctx)).collect::<Result<_>>()
DataRange_collect(pairs, ctx) ==
    IF pairs = <<>> THEN Ok(<<>>, ctx.build)
    ELSE AndThen(DataRange_from_pair(Head(pairs), ctx), LAMBDA r :
         MapOk(DataRange_collect(Tail(pairs), WithBuild(ctx, r.build)),
               LAMBDA rest : <<r.val>> \o rest))

DataRange_from_pair_unchecked(pair, ctx) ==
    IF pair.inner[1].rule = "Datatype"
    THEN MapOk(Datatype_from_pair(pair.inner[1], ctx),
               LAMBDA dt : [dr |-> "Datatype", dt |-> dt])
    ELSE IF pair.inner[1].rule \in {"DataIntersectionOf", "DataUnionOf"}
    THEN MapOk(DataRange_collect(pair.inner[1].inner, ctx),
               LAMBDA v : [dr |-> pair.inner[1].rule, v |-> v])
    ELSE IF pair.inner[1].rule = "DataComplementOf"
    THEN MapOk(DataRange_from_pair(pair.inner[1].inner[1], ctx),
               LAMBDA v : [dr |-> "DataComplementOf", v |-> v])
    ELSE Panic("unexpected rule in DataRange::from_pair", ctx.build)

DataRange_from_pair(pair, ctx) ==
    IF RuleMismatch(pair, "DataRange", ctx) THEN RuleError(pair, "DataRange", ctx)
    ELSE DataRange_from_pair_unchecked(pair, ctx)

RECURSIVE ClassExpression_from_pair(_, _)
RECURSIVE ClassExpression_collect(_, _)
\* .map(|pair| Self::from_pair(pair, ctx)).collect::<Result<_>>()
ClassExpression_collect(pairs, ctx) ==
    IF pairs = <<>> THEN Ok(<<>>, ctx.build)
    ELSE AndThen(ClassExpression_from_pair(Head(pairs), ctx), LAMBDA r :
         MapOk(ClassExpression_collect(Tail(pairs), WithBuild(ctx, r.build)),
               LAMBDA rest : <<r.val>> \o rest))

\* impl_ce_data_cardinality!
impl_ce_data_cardinality(ctx, inner, dt) ==
    AndThen(u32_from_pair(inner.inner[1], ctx), LAMBDA n :
    AndThen(DataProperty_from_pair(inner.inner[2], WithBuild(ctx, n.build)),
            LAMBDA dp :
    MapOk(IF Len(inner.inner) >= 3
          THEN DataRange_from_pair(inner.inner[3], WithBuild(ctx, dp.build))
          ELSE MapOk(IriOk(Build_iri(dp.build, RDFS_Literal)),
                     LAMBDA iri : [dr |-> "Datatype",
                                   dt |-> [ty |-> "Datatype", iri |-> iri]]),
          LAMBDA dr : [ce |-> dt, n |-> n.val, dp |-> dp.val, dr |-> dr])))

\* an object cardinality that takes the class of the property's IRI as the
\* default filler
impl_ce_obj_cardinality_wrong_default(ctx, inner, card) ==
    AndThen(u32_from_pair(inner.inner[1], ctx), LAMBDA n :
    AndThen(ObjectPropertyExpression_from_pair(inner.inner[2],
                                               WithBuild(ctx, n.build)),
            LAMBDA ope :
    MapOk(IF Len(inner.inner) >= 3
          THEN ClassExpression_from_pair(inner.inner[3], WithBuild(ctx, ope.build))
          ELSE Ok([ce |-> "Class",
                   c |-> [ty |-> "Class", iri |-> ope.val.op.iri]], ope.build),
          LAMBDA bce : [ce |-> card, n |-> n.val, ope |-> ope.val, bce |-> bce])))

\* impl_ce_obj_cardinality!
impl_ce_obj_cardinality(ctx, inner, card) ==
    AndThen(u32_from_pair(inner.inner[1], ctx), LAMBDA n :
    AndThen(ObjectPropertyExpression_from_pair(inner.inner[2],
                                               WithBuild(ctx, n.build)),
            LAMBDA ope :
    MapOk(IF Len(inner.inner) >= 3
          THEN ClassExpression_from_pair(inner.inner[3], WithBuild(ctx, ope.build))
          ELSE MapOk(IriOk(Build_iri(ope.build, OWL_Thing)),
                     LAMBDA iri : [ce |-> "Class",
                                   c |-> [ty |-> "Class", iri |-> iri]]),
          LAMBDA bce : [ce |-> card, n |-> n.val, ope |-> ope.val, bce |-> bce])))

ObjectCardinalities ==
    {"ObjectMinCardinality", "ObjectMaxCardinality", "ObjectExactCardinality"}

DataCardinalities ==
    {"DataMinCardinality", "DataMaxCardinality", "DataExactCardinality"}

\* the arms of ClassExpression::from_pair on the node under ClassExpression
ClassExpression_arm(inner, ctx) ==
    IF inner.rule = "Class"
    THEN MapOk(Class_from_pair(inner, ctx), LAMBDA c : [ce |-> "Class", c |-> c])
    ELSE IF inner.rule \in {"ObjectIntersectionOf", "ObjectUnionOf"}
    THEN MapOk(ClassExpression_collect(inner.inner, ctx),
               LAMBDA v : [ce |-> inner.rule, v |-> v])
    ELSE IF inner.rule = "ObjectComplementOf"
    THEN MapOk(ClassExpression_from_pair(inner.inner[1], ctx),
               LAMBDA v : [ce |-> "ObjectComplementOf", v |-> v])
    ELSE IF inner.rule \in {"ObjectSomeValuesFrom", "ObjectAllValuesFrom"}
    THEN AndThen(ObjectPropertyExpression_from_pair(inner.inner[1], ctx),
                 LAMBDA ope :
         MapOk(ClassExpression_from_pair(inner.inner[2], WithBuild(ctx, ope.build)),
               LAMBDA bce : [ce |-> inner.rule, ope |-> ope.val, bce |-> bce]))
    ELSE IF inner.rule = "ObjectHasSelf"
    THEN MapOk(ObjectPropertyExpression_from_pair(inner.inner[1], ctx),
               LAMBDA expr : [ce |-> "ObjectHasSelf", ope |-> expr])
    ELSE IF inner.rule \in ObjectCardinalities
    THEN impl_ce_obj_cardinality(ctx, inner, inner.rule)
    ELSE IF inner.rule \in {"DataSomeValuesFrom", "DataAllValuesFrom"}
    THEN AndThen(DataProperty_from_pair(inner.inner[1], ctx), LAMBDA dp :
         IF inner.inner[2].rule = "DataProperty"
         THEN Panic("not implemented", dp.build)
         ELSE MapOk(DataRange_from_pair(inner.inner[2], WithBuild(ctx, dp.build)),
                    LAMBDA dr : [ce |-> inner.rule, dp |-> dp.val, dr |-> dr]))
    ELSE IF inner.rule \in DataCardinalities
    THEN impl_ce_data_cardinality(ctx, inner, inner.rule)
    ELSE Panic("unexpected rule in ClassExpression::from_pair", ctx.build)

\* impl FromPair for ClassExpression: the arms over classes, class
\* expressions, object property expressions, data properties and data ranges
ClassExpression_from_pair_unchecked(pair, ctx) ==
    ClassExpression_arm(pair.inner[1], ctx)

ClassExpression_from_pair(pair, ctx) ==
    IF RuleMismatch(pair, "ClassExpression", ctx)
    THEN RuleError(pair, "ClassExpression", ctx)
    ELSE ClassExpression_from_pair_unchecked(pair, ctx)

\* impl_wrapper!(AnnotationProperty, Rule::AnnotationProperty)
AnnotationProperty_from_pair(pair, ctx) ==
    Wrapper_from_pair("AnnotationProperty", "AnnotationProperty", pair, ctx)

\* impl FromPair for AnnotationValue: the IRI arm
AnnotationValue_from_pair_unchecked(pair, ctx) ==
    IF pair.inner[1].rule = "IRI"
    THEN MapOk(IRI_from_pair(pair.inner[1], ctx), LAMBDA iri : [av |-> "IRI", iri |-> iri])
    ELSE Panic("unexpected rule in AnnotationValue::from_pair", ctx.build)

AnnotationValue_from_pair(pair, ctx) ==
    IF RuleMismatch(pair, "AnnotationValue", ctx)
    THEN RuleError(pair, "AnnotationValue", ctx)
    ELSE AnnotationValue_from_pair_unchecked(pair, ctx)

\* the elements of a Vec collected into a BTreeSet
SetOf(v) == { v[i] : i \in DOMAIN v }

RECURSIVE Annotation_from_pair(_, _)
RECURSIVE Annotations_collect(_, _)
\* .map(|pair| Annotation::from_pair(pair, ctx)).collect()
Annotations_collect(pairs, ctx) ==
    IF pairs = <<>> THEN Ok(<<>>, ctx.build)
    ELSE AndThen(Annotation_from_pair(Head(pairs), ctx), LAMBDA r :
         MapOk(Annotations_collect(Tail(pairs), WithBuild(ctx, r.build)),
               LAMBDA rest : <<r.val>> \o rest))

\* impl FromPair for BTreeSet<Annotation>
Annotations_from_pair_unchecked(pair, ctx) ==
    MapOk(Annotations_collect(pair.inner, ctx), LAMBDA v : SetOf(v))

Annotations_from_pair(pair, ctx) ==
    IF RuleMismatch(pair, "Annotations", ctx)
    THEN RuleError(pair, "Annotations", ctx)
    ELSE Annotations_from_pair_unchecked(pair, ctx)

\* a lowering that keeps the annotations of the annotation
Annotation_from_pair_unchecked_keeping(pair, ctx) ==
    AndThen(Annotations_from_pair(pair.inner[1], ctx), LAMBDA annotations :
    AndThen(AnnotationProperty_from_pair(pair.inner[2],
                                         WithBuild(ctx, annotations.build)),
            LAMBDA ap :
    MapOk(AnnotationValue_from_pair(pair.inner[3], WithBuild(ctx, ap.build)),
          LAMBDA av : [ap |-> ap.val, av |-> av, ann |-> annotations.val])))

\* a lowering that does not read the annotations of the annotation
Annotation_from_pair_unchecked_skipping(pair, ctx) ==
    AndThen(AnnotationProperty_from_pair(pair.inner[2], ctx), LAMBDA ap :
    MapOk(AnnotationValue_from_pair(pair.inner[3], WithBuild(ctx, ap.build)),
          LAMBDA av : [ap |-> ap.val, av |-> av]))

\* impl FromPair for Annotation: the annotations of the annotation are
\* lowered and dropped
Annotation_from_pair_unchecked(pair, ctx) ==
    AndThen(Annotations_from_pair(pair.inner[1], ctx), LAMBDA annotations :
    AndThen(AnnotationProperty_from_pair(pair.inner[2],
                                         WithBuild(ctx, annotations.build)),
            LAMBDA ap :
    MapOk(AnnotationValue_from_pair(pair.inner[3], WithBuild(ctx, ap.build)),
          LAMBDA av : [ap |-> ap.val, av |-> av])))

Annotation_from_pair(pair, ctx) ==
    IF RuleMismatch(pair, "Annotation", ctx) THEN RuleError(pair, "Annotation", ctx)
    ELSE Annotation_from_pair_unchecked(pair, ctx)

\* AnnotatedComponent::new
AnnotatedComponent_new(component, ann) == [component |-> component, ann |-> ann]

\* SubClassOf::new(sup, sub)
SubClassOf_new(sup, sub) == [ax |-> "SubClassOf", sup |-> sup, sub |-> sub]

\* HasKey::new(ce, vpe)
HasKey_new(ce, vpe) == [ax |-> "HasKey", ce |-> ce, vpe |-> vpe]

\* a SubClassOf arm that stores its operands in the order they are written
SubClassOf_arm_surface_order(inner, ctx) ==
    AndThen(Annotations_from_pair(inner.inner[1], ctx), LAMBDA annotations :
    AndThen(ClassExpression_from_pair(inner.inner[2],
                                      WithBuild(ctx, annotations.build)),
            LAMBDA subcls :
    MapOk(ClassExpression_from_pair(inner.inner[3], WithBuild(ctx, subcls.build)),
          LAMBDA supercls :
              AnnotatedComponent_new(SubClassOf_new(subcls.val, supercls),
                                     annotations.val))))

\* AnnotatedComponent::from_pair_unchecked, Rule::SubClassOf
SubClassOf_arm(inner, ctx) ==
    AndThen(Annotations_from_pair(inner.inner[1], ctx), LAMBDA annotations :
    AndThen(ClassExpression_from_pair(inner.inner[2],
                                      WithBuild(ctx, annotations.build)),
            LAMBDA subcls :
    MapOk(ClassExpression_from_pair(inner.inner[3], WithBuild(ctx, subcls.build)),
          LAMBDA supercls :
              AnnotatedComponent_new(SubClassOf_new(supercls, subcls.val),
                                     annotations.val))))

\* a HasKey entry that puts every child on the object side
HasKey_entry_object_side(pair, ctx) ==
    IF pair.rule = "ObjectPropertyExpression"
    THEN MapOk(ObjectPropertyExpression_from_pair(pair, ctx),
               LAMBDA v : [pe |-> "ObjectPropertyExpression", v |-> v])
    ELSE IF pair.rule = "DataProperty"
    THEN MapOk(DataProperty_from_pair(pair, ctx),
               LAMBDA v : [pe |-> "ObjectPropertyExpression", v |-> v])
    ELSE Panic("unreachable", ctx.build)

\* the closure of the HasKey arm: match pair.as_rule()
HasKey_entry(pair, ctx) ==
    IF pair.rule = "ObjectPropertyExpression"
    THEN MapOk(ObjectPropertyExpression_from_pair(pair, ctx),
               LAMBDA v : [pe |-> "ObjectPropertyExpression", v |-> v])
    ELSE IF pair.rule = "DataProperty"
    THEN MapOk(DataProperty_from_pair(pair, ctx),
               LAMBDA v : [pe |-> "DataProperty", v |-> v])
    ELSE Panic("unreachable", ctx.build)

\* inner.map(...).collect::<Result<_>>() of the HasKey arm
RECURSIVE HasKey_collect(_, _)
HasKey_collect(pairs, ctx) ==
    IF pairs = <<>> THEN Ok(<<>>, ctx.build)
    ELSE AndThen(HasKey_entry(Head(pairs), ctx), LAMBDA r :
         MapOk(HasKey_collect(Tail(pairs), WithBuild(ctx, r.build)),
               LAMBDA rest : <<r.val>> \o rest))

\* AnnotatedComponent::from_pair_unchecked, Rule::HasKey
HasKey_arm(inner, ctx) ==
    AndThen(Annotations_from_pair(inner.inner[1], ctx), LAMBDA annotations :
    AndThen(ClassExpression_from_pair(inner.inner[2],
                                      WithBuild(ctx, annotations.build)),
            LAMBDA ce :
    MapOk(HasKey_collect(SubSeq(inner.inner, 3, Len(inner.inner)),
                         WithBuild(ctx, ce.build)),
          LAMBDA vpe : AnnotatedComponent_new(HasKey_new(ce.val, vpe),
                                              annotations.val))))

\* impl FromPair for AnnotatedComponent: the SubClassOf and HasKey arms
AnnotatedComponent_from_pair_unchecked(pair, ctx) ==
    IF pair.inner[1].rule = "SubClassOf" THEN SubClassOf_arm(pair.inner[1], ctx)
    ELSE IF pair.inner[1].rule = "HasKey" THEN HasKey_arm(pair.inner[1], ctx)
    ELSE Panic("unexpected rule in AnnotatedAxiom::from_pair", ctx.build)

AnnotatedComponent_from_pair(pair, ctx) ==
    IF RuleMismatch(pair, "Axiom", ctx) THEN RuleError(pair, "Axiom", ctx)
    ELSE AnnotatedComponent_from_pair_unchecked(pair, ctx)

\* impl_wrapper!(Import, Rule::Import)
Import_from_pair(pair, ctx) == Wrapper_from_pair("Import", "Import", pair, ctx)

\* impl FromPair for OntologyAnnotation
OntologyAnnotation_from_pair_unchecked(pair, ctx) ==
    MapOk(Annotation_from_pair(pair, ctx), LAMBDA a : [ax |-> "OntologyAnnotation", a |-> a])

OntologyAnnotation_from_pair(pair, ctx) ==
    IF RuleMismatch(pair, "Annotation", ctx) THEN RuleError(pair, "Annotation", ctx)
    ELSE OntologyAnnotation_from_pair_unchecked(pair, ctx)

\* OntologyID { iri, viri }
OntologyID(iri, viri) == [ax |-> "OntologyID", iri |-> iri, viri |-> viri]

\* SetOntology::default()
SetOntology_default == {}

\* SetOntology::insert of a component or an annotated component
SetOntology_insert(ont, c) ==
    ont \cup { IF "component" \in DOMAIN c THEN c ELSE AnnotatedComponent_new(c, {}) }

\* for p in pair.into_inner() { ontology.insert(Import::from_pair(p, ctx)?); }
RECURSIVE Ontology_imports(_, _, _)
Ontology_imports(pairs, ctx, ont) ==
    IF pairs = <<>> THEN Ok(ont, ctx.build)
    ELSE AndThen(Import_from_pair(Head(pairs), ctx), LAMBDA r :
         Ontology_imports(Tail(pairs), WithBuild(ctx, r.build),
                          SetOntology_insert(ont, r.val)))

\* for pair in ... { ontology.insert(OntologyAnnotation::from_pair(pair, ctx)?); }
RECURSIVE Ontology_annotations(_, _, _)
Ontology_annotations(pairs, ctx, ont) ==
    IF pairs = <<>> THEN Ok(ont, ctx.build)
    ELSE AndThen(OntologyAnnotation_from_pair(Head(pairs), ctx), LAMBDA r :
         Ontology_annotations(Tail(pairs), WithBuild(ctx, r.build),
                              SetOntology_insert(ont, r.val)))

\* an axiom loop that treats SWRL rules and DGAxioms as the end of the block
RECURSIVE Ontology_axioms_stop_at_rule(_, _, _)
Ontology_axioms_stop_at_rule(pairs, ctx, ont) ==
    IF pairs = <<>> THEN Ok(ont, ctx.build)
    ELSE IF Head(pairs).inner[1].rule \in {"Rule", "DGAxiom"}
    THEN Ok(ont, ctx.build)
    ELSE IF Head(pairs).inner[1].rule = "Axiom"
    THEN AndThen(AnnotatedComponent_from_pair(Head(pairs).inner[1], ctx), LAMBDA r :
         Ontology_axioms_stop_at_rule(Tail(pairs), WithBuild(ctx, r.build),
                                      SetOntology_insert(ont, r.val)))
    ELSE Panic("unexpected rule in Ontology::from_pair", ctx.build)

\* Process axioms, ignore SWRL rules
RECURSIVE Ontology_axioms(_, _, _)
Ontology_axioms(pairs, ctx, ont) ==
    IF pairs = <<>> THEN Ok(ont, ctx.build)
    ELSE IF Head(pairs).inner[1].rule \in {"Rule", "DGAxiom"}
    THEN Ontology_axioms(Tail(pairs), ctx, ont)
    ELSE IF Head(pairs).inner[1].rule = "Axiom"
    THEN AndThen(AnnotatedComponent_from_pair(Head(pairs).inner[1], ctx), LAMBDA r :
         Ontology_axioms(Tail(pairs), WithBuild(ctx, r.build),
                         SetOntology_insert(ont, r.val)))
    ELSE Panic("unexpected rule in Ontology::from_pair", ctx.build)

\* impl_ontology!: after the header, with pairs[k] the block of imports
Ontology_body(pairs, k, ctx, ontology_id) ==
    AndThen(Ontology_imports(pairs[k].inner, ctx,
                             SetOntology_insert(SetOntology_default, ontology_id)),
            LAMBDA a :
    AndThen(Ontology_annotations(pairs[k + 1].inner, WithBuild(ctx, a.build), a.val),
            LAMBDA b :
    Ontology_axioms(pairs[k + 2].inner, WithBuild(ctx, b.build), b.val)))

\* impl_ontology!(SetOntology)
Ontology_from_pair_unchecked(pair, ctx) ==
    IF ctx.debug /\ pair.rule # "Ontology"
    THEN Panic("assertion failed: pair.as_rule() == Rule::Ontology", ctx.build)
    ELSE IF pair.inner[1].rule = "OntologyIRI"
    THEN AndThen(IRI_from_pair(pair.inner[1].inner[1], ctx), LAMBDA iri :
         IF pair.inner[2].rule = "VersionIRI"
         THEN AndThen(IRI_from_pair(pair.inner[2].inner[1], WithBuild(ctx, iri.build)),
                      LAMBDA viri :
              Ontology_body(pair.inner, 3, WithBuild(ctx, viri.build),
                            OntologyID(Some(iri.val), Some(viri.val))))
         ELSE Ontology_body(pair.inner, 2, WithBuild(ctx, iri.build),
                            OntologyID(Some(iri.val), None)))
    ELSE Ontology_body(pair.inner, 1, ctx, OntologyID(None, None))

Ontology_from_pair(pair, ctx) ==
    IF RuleMismatch(pair, "Ontology", ctx) THEN RuleError(pair, "Ontology", ctx)
    ELSE Ontology_from_pair_unchecked(pair, ctx)

\* a header loop that keeps the first declaration of a name
Document_declare_first(prefixes, inner) ==
    IF inner.inner[1].inner[1].inner # <<>>
    THEN IF inner.inner[1].inner[1].inner[1].str \in DOMAIN prefixes.map
         THEN prefixes
         ELSE add_prefix(prefixes, inner.inner[1].inner[1].inner[1].str,
                         inner.inner[2].inner[1].str)
    ELSE IF prefixes.default.some THEN prefixes
         ELSE set_default(prefixes, inner.inner[2].inner[1].str)

\* the body of the while loop: one PrefixDeclaration
Document_declare(prefixes, inner) ==
    IF inner.inner[1].inner[1].inner # <<>>
    THEN add_prefix(prefixes, inner.inner[1].inner[1].inner[1].str,
                    inner.inner[2].inner[1].str)
    ELSE set_default(prefixes, inner.inner[2].inner[1].str)

\* the while loop over the declarations, then the ontology in the new context
RECURSIVE Document_loop(_, _, _)
Document_loop(pairs, prefixes, ctx) ==
    IF Head(pairs).rule = "PrefixDeclaration"
    THEN Document_loop(Tail(pairs), Document_declare(prefixes, Head(pairs)), ctx)
    ELSE MapOk(Ontology_from_pair(Head(pairs),
                                  Context(ctx.build, prefixes, ctx.debug)),
               LAMBDA ont : [ont |-> ont, prefixes |-> prefixes])

\* a lowering that adds the declarations to the prefix map of its context
Document_from_pair_unchecked_incoming(pair, ctx) ==
    Document_loop(pair.inner, ctx.mapping, ctx)

\* impl FromPair for (O, PrefixMapping)
Document_from_pair_unchecked(pair, ctx) ==
    Document_loop(pair.inner, PrefixMapping_default, ctx)

Document_from_pair(pair, ctx) ==
    IF RuleMismatch(pair, "OntologyDocument", ctx)
    THEN RuleError(pair, "OntologyDocument", ctx)
    ELSE Document_from_pair_unchecked(pair, ctx)

\* The two characters the unescaping is about
BACKSLASH == "\\"

QUOTE == "\""

\* str::contains
contains(s, pat) ==
    \E i \in 1..(Len(s) - Len(pat) + 1) : SubSeq(s, i, i + Len(pat) - 1) = pat

\* str::replace: the matches from left to right that do not overlap
RECURSIVE replace(_, _, _)
replace(s, pat, to) ==
    IF Len(s) < Len(pat) THEN s
    ELSE IF SubSeq(s, 1, Len(pat)) = pat
    THEN to \o replace(SubSeq(s, Len(pat) + 1, Len(s)), pat, to)
    ELSE <<Head(s)>> \o replace(Tail(s), pat, to)

\* a lowering that unescapes the backslash only
String_from_pair_unchecked_backslash_only(pair, ctx) ==
    LET l == Len(pair.str)
        s == SubSeq(pair.str, 2, l - 1)
    IN  IF contains(s, <<BACKSLASH, BACKSLASH>>) \/ contains(s, <<BACKSLASH, QUOTE>>)
        THEN Ok(replace(s, <<BACKSLASH, BACKSLASH>>, <<BACKSLASH>>), ctx.build)
        ELSE Ok(s, ctx.build)

\* impl FromPair for String
String_from_pair_unchecked(pair, ctx) ==
    LET l == Len(pair.str)
        s == SubSeq(pair.str, 2, l - 1)
    IN  IF contains(s, <<BACKSLASH, BACKSLASH>>) \/ contains(s, <<BACKSLASH, QUOTE>>)
        THEN Ok(replace(replace(s, <<BACKSLASH, BACKSLASH>>, <<BACKSLASH>>),
                        <<BACKSLASH, QUOTE>>, <<QUOTE>>), ctx.build)
        ELSE Ok(s, ctx.build)

String_from_pair(pair, ctx) ==
    IF RuleMismatch(pair, "QuotedString", ctx)
    THEN RuleError(pair, "QuotedString", ctx)
    ELSE String_from_pair_unchecked(pair, ctx)

\* Facet::all(): the constraining facets of OWL 2
Facet_all ==
    { "Length", "MinLength", "MaxLength", "Pattern", "MinInclusive",
      "MinExclusive", "MaxInclusive", "MaxExclusive", "TotalDigits",
      "FractionDigits", "LangRange" }

\* Facet::iri_str
Facet_iri_str(facet) ==
    CASE facet = "Length"         -> XSD_NS \o <<"length">>
      [] facet = "MinLength"      -> XSD_NS \o <<"minLength">>
      [] facet = "MaxLength"      -> XSD_NS \o <<"maxLength">>
      [] facet = "Pattern"        -> XSD_NS \o <<"pattern">>
      [] facet = "MinInclusive"   -> XSD_NS \o <<"minInclusive">>
      [] facet = "MinExclusive"   -> XSD_NS \o <<"minExclusive">>
      [] facet = "MaxInclusive"   -> XSD_NS \o <<"maxInclusive">>
      [] facet = "MaxExclusive"   -> XSD_NS \o <<"maxExclusive">>
      [] facet = "TotalDigits"    -> XSD_NS \o <<"totalDigits">>
      [] facet = "FractionDigits" -> XSD_NS \o <<"fractionDigits">>
      [] facet = "LangRange"      -> RDF_NS \o <<"langRange">>

\* .find(|facet| &iri.to_string() == facet.iri_str()).ok_or_else(...)
Facet_find(iri, span, b) ==
    IF \E facet \in Facet_all : Facet_iri_str(facet) = iri
    THEN Ok(CHOOSE facet \in Facet_all : Facet_iri_str(facet) = iri, b)
    ELSE Err(invalid_at("invalid facet", span), b)

\* a lowering that reports every failure as an invalid facet
Facet_from_pair_unchecked_one_error(pair, ctx) ==
    CHOOSE y \in {
        IF x.st = "ok" THEN Facet_find(x.val, pair.inner[1].span, x.build)
        ELSE IF x.st = "err"
        THEN Err(invalid_at("invalid facet", pair.inner[1].span), x.build)
        ELSE x
        : x \in { IRI_from_pair(pair.inner[1], ctx) } } : TRUE

\* impl FromPair for Facet
Facet_from_pair_unchecked(pair, ctx) ==
    AndThen(IRI_from_pair(pair.inner[1], ctx),
            LAMBDA iri : Facet_find(iri.val, pair.inner[1].span, iri.build))

Facet_from_pair(pair, ctx) ==
    IF RuleMismatch(pair, "ConstrainingFacet", ctx)
    THEN RuleError(pair, "ConstrainingFacet", ctx)
    ELSE Facet_from_pair_unchecked(pair, ctx)

(***************************************************************************)
(* Lowering inputs                                                         *)
(***************************************************************************)
PrefixOpts == {None} \cup { Some(n) : n \in PrefixNames }

FullIRIs == { OWL_Thing, EX_NS \o <<"p">> }

Class_t(iri) == T("ClassExpression", << T("Class", <<iri>>) >>)

Datatype_t(iri) == T("DataRange", << T("Datatype", <<iri>>) >>)

ObjectProperty_t(iri) ==
    T("ObjectPropertyExpression", << T("ObjectProperty", <<iri>>) >>)

InverseObjectProperty_t(iri) ==
    T("ObjectPropertyExpression",
      << T("InverseObjectProperty", << T("ObjectProperty", <<iri>>) >>) >>)

\* Card( n property [filler] ); filler is <<>> or one tree
Cardinality_t(rule, n, property, filler) ==
    T("ClassExpression",
      << T(rule, << L("NonNegativeInteger", n), property >> \o filler) >>)

PropertyIRIs ==
    { FullIRI_t(EX_NS \o <<"p">>), AbbreviatedIRI_t(Some(<<"e", "x">>), <<"T">>) }

Numerals == { <<"2">>, <<"0", "7">> }

ObjectFillers ==
    { <<>>,
      << Class_t(AbbreviatedIRI_t(Some(<<"o", "w", "l">>), <<"T">>)) >>,
      << Class_t(FullIRI_t(EX_NS \o <<"p">>)) >>,
      << T("ClassExpression",
           << T("ObjectComplementOf", << Class_t(FullIRI_t(OWL_Thing)) >>) >>) >>,
      << Cardinality_t("ObjectMaxCardinality", <<"1">>,
                       ObjectProperty_t(FullIRI_t(EX_NS \o <<"p">>)), <<>>) >> }

DataFillers ==
    { <<>>,
      << Datatype_t(FullIRI_t(RDFS_Literal)) >>,
      << Datatype_t(AbbreviatedIRI_t(None, <<"T">>)) >>,
      << T("DataRange",
           << T("DataComplementOf", << Datatype_t(FullIRI_t(RDFS_Literal)) >>) >>) >> }

\* The cardinality restrictions lowered, with what was written: [rule, n,
\* filler, tree]
CardinalityInputs ==
    { [rule |-> r, n |-> n, filler |-> f,
       tree |-> Cardinality_t(r, n, pe, f)] :
        r \in ObjectCardinalities, n \in Numerals, f \in ObjectFillers,
        pe \in { ObjectProperty_t(i) : i \in PropertyIRIs }
               \cup { InverseObjectProperty_t(i) : i \in PropertyIRIs } }
    \cup
    { [rule |-> r, n |-> n, filler |-> f,
       tree |-> Cardinality_t(r, n, T("DataProperty", <<i>>), f)] :
        r \in DataCardinalities, n \in Numerals, f \in DataFillers,
        i \in PropertyIRIs }

MaxKeys == 2         \* property expressions of a HasKey

\* Annotation( annotations property value )
Annotation_t(nested, ap, av) ==
    T("Annotation", << T("Annotations", nested), T("AnnotationProperty", <<ap>>),
                       T("AnnotationValue", <<av>>) >>)

\* the annotations written in front of an axiom's operands
AnnotationLists ==
    { <<>>,
      << Annotation_t(<<>>, AbbreviatedIRI_t(Some(<<"o", "w", "l">>), <<"T">>),
                      FullIRI_t(EX_NS \o <<"p">>)) >> }

ClassOperands ==
    { Class_t(AbbreviatedIRI_t(Some(<<"e", "x">>), <<"T">>)),
      Class_t(FullIRI_t(OWL_Thing)),
      T("ClassExpression",
        << T("ObjectComplementOf", << Class_t(FullIRI_t(EX_NS \o <<"p">>)) >>) >>) }

\* SubClassOf( annotations sub sup )
SubClassOf_t(anns, sub, sup) ==
    T("Axiom", << T("SubClassOf", << T("Annotations", anns), sub, sup >>) >>)

\* HasKey( annotations ce ( properties ) )
HasKey_t(anns, ce, props) ==
    T("Axiom", << T("HasKey", << T("Annotations", anns), ce >> \o props) >>)

KeyProperties ==
    { ObjectProperty_t(FullIRI_t(EX_NS \o <<"p">>)),
      InverseObjectProperty_t(AbbreviatedIRI_t(Some(<<"e", "x">>), <<"T">>)),
      T("DataProperty", << FullIRI_t(EX_NS \o <<"p">>) >>) }

\* the sequences over S of length at most n
SeqsUpTo(S, n) == UNION { [1..k -> S] : k \in 0..n }

\* the texts of NonNegativeInteger tokens: 0, 07, u32::MAX, u32::MAX + 1
\* and a numeral of eleven digits
IntegerTexts ==
    { <<"0">>, <<"0", "7">>,
      <<"4", "2", "9", "4", "9", "6", "7", "2", "9", "5">>,
      <<"4", "2", "9", "4", "9", "6", "7", "2", "9", "6">>,
      <<"0", "4", "2", "9", "4", "9", "6", "7", "2", "9", "5">>,
      <<"1", "0", "0", "0", "0", "0", "0", "0", "0", "0", "0">> }

DataProperty_t(iri) == T("DataProperty", <<iri>>)

\* DataSomeValuesFrom( dp ... ) and DataAllValuesFrom( dp ... )
DataValuesFrom_t(rule, children) == T("ClassExpression", << T(rule, children) >>)

\* what follows the first data property: a data range, or a second data
\* property and then the data range (a chain)
DataValuesFromTails ==
    { << Datatype_t(FullIRI_t(RDFS_Literal)) >>,
      << Datatype_t(AbbreviatedIRI_t(None, <<"T">>)) >>,
      << DataProperty_t(FullIRI_t(EX_NS \o <<"p">>)),
         Datatype_t(FullIRI_t(RDFS_Literal)) >> }

MaxDecls == 2        \* prefix declarations of a document

MaxMembers == 3      \* axioms, rules and DGAxioms of a document

\* Prefix(name:=<iri>), with name an Option
PrefixDeclaration_t(name, iri) ==
    T("PrefixDeclaration",
      << T("PrefixName", << T("PNAME_NS", IF name.some THEN << L("PN_PREFIX", name.val) >>
                                                      ELSE <<>>) >>),
         T("FullIRI", << L("IRIREF", iri) >>) >>)

\* the declarations a document may make: [name, iri]
PrefixBindings ==
    { [name |-> Some(<<"e", "x">>), iri |-> EX_NS],
      [name |-> None, iri |-> EX_NS],
      [name |-> None, iri |-> OWL_NS] }

\* the header of the ontology: its identifiers and its annotations
Headers ==
    { [ids |-> <<>>, anns |-> <<>>],
      [ids  |-> << T("OntologyIRI", << AbbreviatedIRI_t(Some(<<"e", "x">>), <<"T">>) >>),
                   T("VersionIRI", << FullIRI_t(EX_NS \o <<"p">>) >>) >>,
       anns |-> << Annotation_t(<<>>, FullIRI_t(EX_NS \o <<"p">>),
                                AbbreviatedIRI_t(None, <<"T">>)) >>] }

\* the members of the axiom block: two axioms, one of them with an
\* annotation on its annotation, a SWRL rule, a DGAxiom, and an axiom over a
\* data property chain
DocumentMembers ==
    { SubClassOf_t(<< Annotation_t(<< Annotation_t(<<>>, AbbreviatedIRI_t(None, <<"T">>),
                                                   FullIRI_t(EX_NS \o <<"p">>)) >>,
                                   FullIRI_t(EX_NS \o <<"p">>),
                                   FullIRI_t(EX_NS \o <<"p">>)) >>,
                   Class_t(AbbreviatedIRI_t(Some(<<"e", "x">>), <<"T">>)),
                   Class_t(FullIRI_t(OWL_Thing))),
      SubClassOf_t(<<>>, Class_t(FullIRI_t(EX_NS \o <<"p">>)),
                   Class_t(AbbreviatedIRI_t(None, <<"T">>))),
      T("Rule", << AbbreviatedIRI_t(Some(<<"o", "w", "l">>), <<"T">>) >>),
      T("DGAxiom", <<>>),
      SubClassOf_t(<<>>,
                   DataValuesFrom_t("DataSomeValuesFrom",
                                    << DataProperty_t(FullIRI_t(EX_NS \o <<"p">>)),
                                       DataProperty_t(FullIRI_t(EX_NS \o <<"p">>)),
                                       Datatype_t(FullIRI_t(RDFS_Literal)) >>),
                   Class_t(FullIRI_t(OWL_Thing))) }

\* the children of the axiom block, one around each member
Members_t(members) == [i \in DOMAIN members |-> T("AxiomOrRule", << members[i] >>)]

\* Prefix(...)* Ontology( ids imports annotations axioms )
Document_t(decls, header, members) ==
    T("OntologyDocument",
      [i \in DOMAIN decls |-> PrefixDeclaration_t(decls[i].name, decls[i].iri)]
      \o << T("Ontology",
              header.ids \o << T("Imports", <<>>),
                               T("OntologyAnnotations", header.anns),
                               T("Axioms", Members_t(members)) >>) >>)

\* the declarations of the documents whose axiom block varies
DeclarationLists ==
    { <<>>,
      << [name |-> Some(<<"e", "x">>), iri |-> EX_NS] >>,
      << [name |-> Some(<<"e", "x">>), iri |-> EX_NS], [name |-> None, iri |-> OWL_NS] >> }

\* the documents lowered, [decls, header, members]: every header of up to
\* MaxDecls declarations in front of at most one member, and every axiom
\* block of up to MaxMembers members behind one of DeclarationLists
Documents ==
    { [decls |-> ds, header |-> h, members |-> ms] :
        ds \in SeqsUpTo(PrefixBindings, MaxDecls), h \in Headers,
        ms \in SeqsUpTo(DocumentMembers, 1) }
    \cup
    { [decls |-> ds, header |-> h, members |-> ms] :
        ds \in DeclarationLists, h \in Headers,
        ms \in SeqsUpTo(DocumentMembers, MaxMembers) }

DocumentOf(d) == Document_t(d.decls, d.header, d.members)

MaxPayload == 3      \* escapes and characters between the quotes of a string

\* What the grammar lets stand between the quotes: the two escapes and a
\* character that is neither a quote nor a backslash; a backslash before
\* another character is what a lexer less strict than the grammar lets pass.
PayloadParts ==
    { <<BACKSLASH, BACKSLASH>>, <<BACKSLASH, QUOTE>>, <<"a">>, <<BACKSLASH, "n">> }

Payloads == SeqsUpTo(PayloadParts, MaxPayload)

RECURSIVE Joined(_)
Joined(parts) == IF parts = <<>> THEN <<>> ELSE Head(parts) \o Joined(Tail(parts))

\* ofn.pest: QuotedString, the quotes included
QuotedString_t(parts) == L("QuotedString", <<QUOTE>> \o Joined(parts) \o <<QUOTE>>)

\* ofn.pest: ConstrainingFacet > IRI
ConstrainingFacet_t(iri) == T("ConstrainingFacet", <<iri>>)

\* Facet IRIs in both forms: abbreviated ones that name a facet or not
\* according to the prefix map, every facet in full, and full IRIs that are
\* no facet.
FacetIRIs_t ==
    { AbbreviatedIRI_t(p, l) : p \in PrefixOpts, l \in { <<"length">>, <<"T">> } }
    \cup { FullIRI_t(Facet_iri_str(facet)) : facet \in Facet_all }
    \cup { FullIRI_t(i) : i \in { OWL_Thing, XSD_NS \o <<"Length">>,
                                 EX_NS \o <<"length">> } }

MaxAnnotations == 2  \* annotations in the annotation block of an axiom

\* Annotations of an annotation: one that lowers under every prefix map, one
\* under a prefix that has to be declared, and one that holds an annotation
\* of its own whose value needs the default namespace.
NestedAnnotationLists ==
    { <<>>,
      << Annotation_t(<<>>, FullIRI_t(EX_NS \o <<"q">>), FullIRI_t(OWL_Thing)) >>,
      << Annotation_t(<<>>, AbbreviatedIRI_t(Some(<<"o", "w", "l">>), <<"T">>),
                      FullIRI_t(OWL_Thing)) >>,
      << Annotation_t(<< Annotation_t(<<>>, FullIRI_t(EX_NS \o <<"q">>),
                                      AbbreviatedIRI_t(None, <<"T">>)) >>,
                      FullIRI_t(EX_NS \o <<"q">>), FullIRI_t(OWL_Thing)) >> }

\* Annotations with and without annotations of their own
NestingAnnotations ==
    { Annotation_t(nested, FullIRI_t(EX_NS \o <<"p">>), FullIRI_t(OWL_Thing)) :
        nested \in NestedAnnotationLists }
    \cup { Annotation_t(<<>>, AbbreviatedIRI_t(Some(<<"e", "x">>), <<"T">>),
                        FullIRI_t(EX_NS \o <<"p">>)) }

\* The axioms SubClassOf is lowered on: the operands in every combination
\* under a short annotation block, and every annotation block over fixed
\* operands
SubClassOfInputs ==
    { [ann |-> anns, sub |-> sub, sup |-> sup] :
        anns \in AnnotationLists, sub \in ClassOperands, sup \in ClassOperands }
    \cup { [ann |-> anns, sub |-> Class_t(FullIRI_t(OWL_Thing)),
            sup |-> Class_t(FullIRI_t(OWL_Thing))] :
             anns \in SeqsUpTo(NestingAnnotations, MaxAnnotations) }

(***************************************************************************)
(* Operations of the lowering                                              *)
(***************************************************************************)
Ctx == Context(build, mapping, debug_assertions)

InitLower(flavours) ==
    /\ mapping = PrefixMapping_default
    /\ build = {}
    /\ debug_assertions \in flavours
    /\ phase = "setup"
    /\ lowered = [op |-> "none"]

\* prefixes.add_prefix(name, iri)
AddPrefix ==
    \E name \in PrefixNames, iri \in Namespaces :
        /\ phase = "setup"
        /\ mapping' = add_prefix(mapping, name, iri)
        /\ UNCHANGED <<build, debug_assertions, phase, lowered>>
        /\ UNCHANGED <<indexVars, storeVars, simpleVars>>

\* prefixes.set_default(iri)
SetDefault ==
    \E iri \in Namespaces :
        /\ phase = "setup"
        /\ mapping' = set_default(mapping, iri)
        /\ UNCHANGED <<build, debug_assertions, phase, lowered>>
        /\ UNCHANGED <<indexVars, storeVars, simpleVars>>

\* build.iri(s), by the owner of the store
Intern ==
    \E str \in FullIRIs :
        /\ phase = "setup"
        /\ build' = Build_iri(build, str).build
        /\ UNCHANGED <<mapping, debug_assertions, phase, lowered>>
        /\ UNCHANGED <<indexVars, storeVars, simpleVars>>

\* IRI::from_pair(pair, &ctx) on prefix:local
LowerAbbreviatedIRI ==
    \E p \in PrefixOpts, l \in Locals :
        /\ phase = "setup"
        /\ LET pair == Layout(AbbreviatedIRI_t(p, l), 0)
               res  == IRI_from_pair(pair, Ctx)
           IN  /\ lowered' = [op |-> "AbbreviatedIRI",
                              args |-> [prefix |-> p, local |-> l],
                              pair |-> pair, res |-> res]
               /\ build' = lowered'.res.build
        /\ phase' = "done"
        /\ UNCHANGED <<mapping, debug_assertions>>
        /\ UNCHANGED <<indexVars, storeVars, simpleVars>>

\* IRI::from_pair(pair, &ctx) on <iri>
LowerFullIRI ==
    \E i \in FullIRIs :
        /\ phase = "setup"
        /\ LET pair == Layout(FullIRI_t(i), 0)
               res  == IRI_from_pair(pair, Ctx)
           IN  /\ lowered' = [op |-> "FullIRI", args |-> [iri |-> i],
                              pair |-> pair, res |-> res]
               /\ build' = lowered'.res.build
        /\ phase' = "done"
        /\ UNCHANGED <<mapping, debug_assertions>>
        /\ UNCHANGED <<indexVars, storeVars, simpleVars>>

\* ClassExpression::from_pair(pair, &ctx) on a cardinality restriction
LowerCardinality ==
    \E in \in CardinalityInputs :
        /\ phase = "setup"
        /\ LET pair == Layout(in.tree, 0)
               res  == ClassExpression_from_pair(pair, Ctx)
           IN  /\ lowered' = [op |-> "ClassExpression",
                              args |-> [rule |-> in.rule, n |-> in.n,
                                        filler |-> in.filler],
                              pair |-> pair, res |-> res]
               /\ build' = lowered'.res.build
        /\ phase' = "done"
        /\ UNCHANGED <<mapping, debug_assertions>>
        /\ UNCHANGED <<indexVars, storeVars, simpleVars>>

\* AnnotatedComponent::from_pair(pair, &ctx) on a SubClassOf axiom
LowerSubClassOf ==
    \E in \in SubClassOfInputs :
        /\ phase = "setup"
        /\ LET pair == Layout(SubClassOf_t(in.ann, in.sub, in.sup), 0)
           IN  lowered' = [op |-> "SubClassOf",
                           args |-> [ann |-> in.ann, sub |-> in.sub, sup |-> in.sup,
                                     build |-> build],
                           pair |-> pair,
                           res |-> AnnotatedComponent_from_pair(pair, Ctx)]
        /\ build' = lowered'.res.build
        /\ phase' = "done"
        /\ UNCHANGED <<mapping, debug_assertions>>
        /\ UNCHANGED <<indexVars, storeVars, simpleVars>>

\* AnnotatedComponent::from_pair(pair, &ctx) on a HasKey axiom
LowerHasKey ==
    \E anns \in AnnotationLists, props \in SeqsUpTo(KeyProperties, MaxKeys) :
        /\ phase = "setup"
        /\ LET pair == Layout(HasKey_t(anns, Class_t(FullIRI_t(OWL_Thing)), props), 0)
           IN  lowered' = [op |-> "HasKey",
                           args |-> [ann |-> anns, props |-> props],
                           pair |-> pair,
                           res |-> AnnotatedComponent_from_pair(pair, Ctx)]
        /\ build' = lowered'.res.build
        /\ phase' = "done"
        /\ UNCHANGED <<mapping, debug_assertions>>
        /\ UNCHANGED <<indexVars, storeVars, simpleVars>>

\* u32::from_pair(pair, &ctx)
LowerU32 ==
    \E str \in IntegerTexts :
        /\ phase = "setup"
        /\ LET pair == Layout(L("NonNegativeInteger", str), 0)
           IN  lowered' = [op |-> "u32", args |-> [str |-> str], pair |-> pair,
                           res |-> u32_from_pair(pair, Ctx)]
        /\ build' = lowered'.res.build
        /\ phase' = "done"
        /\ UNCHANGED <<mapping, debug_assertions>>
        /\ UNCHANGED <<indexVars, storeVars, simpleVars>>

\* ClassExpression::from_pair(pair, &ctx) on Data{Some,All}ValuesFrom
LowerDataValuesFrom ==
    \E rule \in {"DataSomeValuesFrom", "DataAllValuesFrom"},
       i \in PropertyIRIs, tail \in DataValuesFromTails :
        /\ phase = "setup"
        /\ LET pair == Layout(DataValuesFrom_t(rule, <<DataProperty_t(i)>> \o tail), 0)
           IN  lowered' = [op |-> "DataValuesFrom",
                           args |-> [rule |-> rule, tail |-> tail],
                           pair |-> pair,
                           res |-> ClassExpression_from_pair(pair, Ctx)]
        /\ build' = lowered'.res.build
        /\ phase' = "done"
        /\ UNCHANGED <<mapping, debug_assertions>>
        /\ UNCHANGED <<indexVars, storeVars, simpleVars>>

\* <(SetOntology, PrefixMapping)>::from_pair(pair, &ctx) on a document
LowerDocument ==
    \E d \in Documents :
        /\ phase = "setup"
        /\ lowered' = [op |-> "Document",
                       args |-> [decls |-> d.decls, header |-> d.header,
                                 members |-> d.members, build |-> build],
                       res |-> Document_from_pair(Layout(DocumentOf(d), 0), Ctx)]
        /\ build' = lowered'.res.build
        /\ phase' = "done"
        /\ UNCHANGED <<mapping, debug_assertions>>
        /\ UNCHANGED <<indexVars, storeVars, simpleVars>>


\* String::from_pair(pair, &ctx)
LowerString ==
    \E parts \in Payloads :
        /\ phase = "setup"
        /\ LET pair == Layout(QuotedString_t(parts), 0)
           IN  lowered' = [op |-> "String", args |-> [parts |-> parts], pair |-> pair,
                           res |-> String_from_pair(pair, Ctx)]
        /\ build' = lowered'.res.build
        /\ phase' = "done"
        /\ UNCHANGED <<mapping, debug_assertions>>
        /\ UNCHANGED <<indexVars, storeVars, simpleVars>>

\* Facet::from_pair(pair, &ctx)
LowerFacet ==
    \E iri \in FacetIRIs_t :
        /\ phase = "setup"
        /\ LET pair == Layout(ConstrainingFacet_t(iri), 0)
           IN  lowered' = [op |-> "Facet", args |-> [build |-> build], pair |-> pair,
                           res |-> Facet_from_pair(pair, Ctx)]
        /\ build' = lowered'.res.build
        /\ phase' = "done"
        /\ UNCHANGED <<mapping, debug_assertions>>
        /\ UNCHANGED <<indexVars, storeVars, simpleVars>>

\* Annotation::from_pair(pair, &ctx)
LowerAnnotation ==
    \E ann \in NestingAnnotations :
        /\ phase = "setup"
        /\ LET pair == Layout(ann, 0)
           IN  lowered' = [op |-> "Annotation", args |-> [ann |-> ann, build |-> build],
                           pair |-> pair,
                           res |-> Annotation_from_pair(pair, Ctx)]
        /\ build' = lowered'.res.build
        /\ phase' = "done"
        /\ UNCHANGED <<mapping, debug_assertions>>
        /\ UNCHANGED <<indexVars, storeVars, simpleVars>>

NextDoc == SetDefault \/ LowerDocument \/ LowerSubClassOf \/ LowerAnnotation

NextLower ==
    \/ AddPrefix \/ SetDefault \/ Intern
    \/ LowerAbbreviatedIRI \/ LowerFullIRI \/ LowerCardinality
    \/ LowerSubClassOf \/ LowerHasKey
    \/ LowerU32 \/ LowerDataValuesFrom \/ LowerString \/ LowerFacet
    \/ LowerAnnotation

(***************************************************************************)
(* Specifications                                                          *)
(***************************************************************************)
InsertMerge == Insert(MergeComponents)

TakeMerge == Take(MergeComponents)

FindMerge == Find(MergeComponents)

UpdateMerge == Update(MergeComponents)

InsertDecl == Insert(DeclComponents)

TakeDecl == Take(DeclComponents)

NextIndex == InsertMerge \/ TakeMerge \/ FindMerge \/ UpdateMerge

NextDecl == InsertDecl \/ TakeDecl \/ FindDeclarationKind

Init == InitIndex /\ InitStore /\ InitLower({TRUE}) /\ InitSimple

InitAnyBuild == InitIndex /\ InitStore /\ InitLower(BOOLEAN) /\ InitSimple

SpecIndex == Init /\ [][NextIndex]_vars

SpecDecl == Init /\ [][NextDecl]_vars

SpecStore == Init /\ [][NextStore]_vars

SpecLower == InitAnyBuild /\ [][NextLower]_vars

SpecDoc == InitAnyBuild /\ [][NextDoc]_vars

SpecEq == Init /\ [][NextEq]_vars

SpecUpdate == Init /\ [][UpdateMerge]_vars

SpecSimple == Init /\ [][NextSimple]_vars

(***************************************************************************)
(* Properties of the query layer                                           *)
(***************************************************************************)
Max(a, b) == IF a >= b THEN a ELSE b

\* The positions of ont that hold a's payload (and so a's kind).
SamePayload(ont, a) ==
    { i \in DOMAIN ont : kind(ont[i]) = kind(a) /\ ont[i].axiom = a.axiom }

\* The entity kinds under which iri is declared in ont.
DeclaredKinds(ont, iri) ==
    { NamedEntityKindOf(ont[i].axiom.variant) :
        i \in { j \in DOMAIN ont : ont[j].axiom.iri = iri } }

\* The search order the specification gives for find_declaration_kind.
KindOrder ==
    << "Class", "ObjectProperty", "AnnotationProperty", "DataProperty",
       "NamedIndividual", "Datatype" >>

FirstInKindOrder(ks) ==
    KindOrder[CHOOSE k \in DOMAIN KindOrder :
                  /\ KindOrder[k] \in ks
                  /\ \A j \in 1..(k - 1) : KindOrder[j] \notin ks]

\* C1: when exactly one component a of the ontology is logically equal to b,
\* update_logically_equal_axiom(o, b) leaves exactly one component with that
\* payload, and its annotation set is a.ann \cup b.ann.
C1_MergeOfOne ==
    \A b \in MergeComponents :
        LET before == SamePayload(o, b)
            r      == update_logically_equal_axiom(o, b)
            after  == SamePayload(r.o, b)
        IN  Cardinality(before) = 1 =>
                /\ r.ret = "merged"
                /\ Cardinality(after) = 1
                /\ \A i \in after : \A j \in before :
                       r.o[i].ann = o[j].ann \cup b.ann

\* C1 witness: an update with the annotation a2 has met a component annotated
\* a1 and left that payload once, annotated with both.
C1_Witness ==
    /\ last.op = "update_logically_equal_axiom"
    /\ last.ret = "merged"
    /\ last.arg.ann = {"a2"}
    /\ Cardinality(SamePayload(o, last.arg)) = 1
    /\ \A i \in SamePayload(o, last.arg) : o[i].ann = {"a1", "a2"}

\* C2 as claimed: for every ontology and every component a, after
\* update_logically_equal_axiom(o, a) at most one component with a's kind and
\* payload remains, carrying the union of the annotation sets of all the
\* logically-equal components.
C2_AtMostOneAfterUpdate ==
    \A a \in MergeComponents :
        LET before == SamePayload(o, a)
            r      == update_logically_equal_axiom(o, a)
            after  == SamePayload(r.o, a)
        IN  /\ Cardinality(after) <= 1
            /\ \A i \in after :
                   r.o[i].ann = a.ann \cup UNION { o[j].ann : j \in before }

\* C2 amended: update_logically_equal_axiom(o, a) merges a with one
\* logically-equal component only, so the number of components with a's kind
\* and payload after the call is at most max(1, the number before); when o
\* held at most one such component exactly one remains, carrying the union of
\* its annotations and a's.
C2_UpdateMergesOne ==
    \A a \in MergeComponents :
        LET before == SamePayload(o, a)
            r      == update_logically_equal_axiom(o, a)
            after  == SamePayload(r.o, a)
        IN  /\ r.ret # "panic"
            /\ Cardinality(after) <= Max(1, Cardinality(before))
            /\ Cardinality(after) >= 1
            /\ Cardinality(before) <= 1 =>
                   /\ Cardinality(after) = 1
                   /\ \A i \in after :
                          r.o[i].ann = a.ann \cup UNION { o[j].ann : j \in before }

\* C2 witness: after an update that merged, two components with the payload
\* of its argument are in the ontology.
C2_Witness ==
    /\ last.op = "update_logically_equal_axiom"
    /\ last.ret = "merged"
    /\ Cardinality(SamePayload(o, last.arg)) = 2

\* C3: find_logically_equal_axiom(o, a) returns a component exactly when o
\* holds one with a's kind and payload, whatever the annotations of either,
\* and None otherwise; what it returns is a component of o, with o's
\* annotations.
C3_FindIgnoresAnnotations ==
    \A a \in MergeComponents :
        LET f == find_logically_equal_axiom(o, a)
        IN  /\ f.some <=> SamePayload(o, a) # {}
            /\ f.some => \E i \in SamePayload(o, a) : o[i] = f.val

\* C3 witness: a find has returned a component whose annotations differ from
\* those of the component asked for.
C3_Witness ==
    /\ last.op = "find_logically_equal_axiom"
    /\ last.ret.some
    /\ last.arg.ann = {"a2"}
    /\ last.ret.val.ann = {"a1"}
    /\ \E i \in DOMAIN o : o[i] = last.ret.val

\* C4 as claimed: whenever o holds a declaration of iri of kind k,
\* find_declaration_kind(o, iri) returns Some(k).
C4_EveryDeclaredKindReturned ==
    \A iri \in IndexIRIs :
        \A k \in DeclaredKinds(o, iri) : find_declaration_kind(o, iri) = Some(k)

\* C4 amended: when iri is declared in o under exactly one kind k,
\* find_declaration_kind(o, iri) returns Some(k); when it is declared under
\* several kinds the result is one of the declared kinds.
C4_DeclaredKindReturned ==
    \A iri \in IndexIRIs :
        LET ks == DeclaredKinds(o, iri)
            f  == find_declaration_kind(o, iri)
        IN  /\ ks # {} => f.some /\ f.val \in ks
            /\ \A k \in ks : ks = {k} => f = Some(k)

\* C4 witness: the lookup of an IRI declared only as a Datatype, with an
\* annotated declaration, has returned Datatype.
C4_Witness ==
    /\ last.op = "find_declaration_kind"
    /\ last.arg = "http://www.example.com/c"
    /\ DeclaredKinds(o, last.arg) = {"Datatype"}
    /\ last.ret = Some("Datatype")

\* C5: when iri is declared under several kinds, find_declaration_kind
\* returns the declared kind that comes first in the order Class,
\* ObjectProperty, AnnotationProperty, DataProperty, NamedIndividual,
\* Datatype, whatever the order of insertion.
C5_FirstKindInFixedOrder ==
    \A iri \in IndexIRIs :
        LET ks == DeclaredKinds(o, iri)
        IN  ks # {} => find_declaration_kind(o, iri) = Some(FirstInKindOrder(ks))

\* C5 witness: an IRI was declared as a NamedIndividual first and as an
\* ObjectProperty second, and the lookup has returned ObjectProperty.
C5_Witness ==
    /\ last.op = "find_declaration_kind"
    /\ Len(o) = 2
    /\ o[1].axiom = Declare("DeclareNamedIndividual", last.arg)
    /\ o[2].axiom = Declare("DeclareObjectProperty", last.arg)
    /\ last.ret = Some("ObjectProperty")

\* C6: the built-in table decides only when o holds no declaration of iri:
\* then the result is the table's kind, None for an IRI that is not built
\* in; when a declaration exists a declared kind is returned, even where the
\* table gives another kind.
C6_TableOnlyWhenUndeclared ==
    \A iri \in IndexIRIs :
        LET ks == DeclaredKinds(o, iri)
            f  == find_declaration_kind(o, iri)
        IN  /\ ks = {} => f = to_built_in_entity(iri)
            /\ (ks = {} /\ iri = "http://www.example.com/c") => f = None
            /\ ks # {} => f.some /\ f.val \in ks

\* C6 witness: owl:Thing, a Class in the built-in table, is declared as a
\* DataProperty only, and the lookup has returned DataProperty.
C6_Witness ==
    /\ last.op = "find_declaration_kind"
    /\ last.arg = "owl:Thing"
    /\ to_built_in_entity(last.arg) = Some("Class")
    /\ DeclaredKinds(o, last.arg) = {"DataProperty"}
    /\ last.ret = Some("DataProperty")

(***************************************************************************)
(* Properties of the IRI store                                             *)
(***************************************************************************)
\* The handles the callers hold on allocation id.
HeldOn(id) == { k \in DOMAIN held : held[k].id = id }

\* C7: every IRI that iri() returned has exactly the string its call was
\* given, as an owned string, a slice or an IRI, so two IRIs returned for
\* equal inputs are equal, whatever was requested in between.
C7_IriHasInputString ==
    /\ \A k \in DOMAIN held :
           /\ held[k].id \in DOMAIN heap
           /\ heap[held[k].id].str = held[k].input
    /\ \A k1, k2 \in DOMAIN held :
           held[k1].input = held[k2].input => IRI_eq(heap, held[k1].id, held[k2].id)
    /\ lastIri.op # "new" =>
           /\ lastIri.ret \in DOMAIN heap
           /\ heap[lastIri.ret].str = lastIri.input

\* C7 witness: an IRI got from an owned string and one got later from an IRI
\* have the same string, and an IRI for another string was requested between
\* the two.
C7_Witness ==
    /\ Len(held) = 3
    /\ held[1].form = "String"
    /\ held[2].form = "str"
    /\ held[3].form = "IRI"
    /\ held[1].input = held[3].input
    /\ held[2].input # held[1].input
    /\ heap[held[1].id].str = heap[held[3].id].str
    /\ lastIri.op = "IRI"

\* C8: within one store the IRIs returned for equal strings are handles to
\* one allocation, of which the store holds exactly one reference: the strong
\* count of an interned string is the number of handles the callers hold on
\* it plus one, and the store has exactly one entry for each string requested.
C8_OneSharedAllocation ==
    /\ \A k1, k2 \in DOMAIN held :
           held[k1].input = held[k2].input => held[k1].id = held[k2].id
    /\ \A k \in DOMAIN held : held[k].id \in cache
    /\ \A e \in cache :
           /\ e \in DOMAIN heap
           /\ heap[e].strong = Cardinality(HeldOn(e)) + 1
    /\ \A e1, e2 \in cache : IRI_eq(heap, e1, e2) => e1 = e2
    /\ { heap[e].str : e \in cache } = requested

\* C8 witness: two calls with the same string have returned handles to one
\* allocation, whose strong count is three.
C8_Witness ==
    /\ Len(held) = 2
    /\ held[1].form = "String"
    /\ held[2].form = "String"
    /\ held[1].id = held[2].id
    /\ lastIri.ret = held[2].id
    /\ heap[held[1].id].strong = 3
    /\ Cardinality(cache) = 1

\* The text extent of prefix:local written at position 0
AbbreviatedSpan(p, l) == <<0, (IF p.some THEN Len(p.val) ELSE 0) + 1 + Len(l)>>

\* C9: lowering p:local returns the IRI of the namespace of p followed by
\* local (the default namespace when p is absent) and interns it; it fails
\* with "undefined prefix" when p is written and not in the map, and with
\* "missing default prefix" when p is absent and no default is set; each
\* error carries the span of the abbreviated IRI and returns no IRI.
C9_AbbreviatedIRIExpansion ==
    lowered.op = "AbbreviatedIRI" =>
        LET p    == lowered.args.prefix
            l    == lowered.args.local
            res  == lowered.res
            span == AbbreviatedSpan(p, l)
        IN  /\ lowered.pair.inner[1].rule = "AbbreviatedIRI"
            /\ lowered.pair.inner[1].span = span
            /\ res.st \in {"ok", "err"}
            /\ (p.some /\ p.val \in DOMAIN mapping.map) =>
                   /\ res.st = "ok"
                   /\ res.val = mapping.map[p.val] \o l
                   /\ res.val \in build
            /\ (~p.some /\ mapping.default.some) =>
                   /\ res.st = "ok"
                   /\ res.val = mapping.default.val \o l
                   /\ res.val \in build
            /\ (p.some /\ p.val \notin DOMAIN mapping.map) =>
                   /\ res.st = "err"
                   /\ res.err = invalid_at("undefined prefix", span)
            /\ (~p.some /\ ~mapping.default.some) =>
                   /\ res.st = "err"
                   /\ res.err = invalid_at("missing default prefix", span)
            /\ res.st = "err" => "val" \notin DOMAIN res

\* C9 witness: ex:T was lowered against a map that has owl and a default
\* namespace but not ex, and failed with the span of the whole of ex:T.
C9_Witness ==
    /\ lowered.op = "AbbreviatedIRI"
    /\ lowered.args.prefix = Some(<<"e", "x">>)
    /\ lowered.args.local = <<"T">>
    /\ DOMAIN mapping.map = { <<"o", "w", "l">> }
    /\ mapping.default.some
    /\ lowered.res.st = "err"
    /\ lowered.res.err.msg = "undefined prefix"
    /\ lowered.res.err.span = <<0, 4>>

\* Class(owl:Thing) and Datatype(rdfs:Literal) as the lowering stores them
ThingClass == [ce |-> "Class", c |-> [ty |-> "Class", iri |-> OWL_Thing]]

LiteralDatatype ==
    [dr |-> "Datatype", dt |-> [ty |-> "Datatype", iri |-> RDFS_Literal]]

\* C10: a lowered object cardinality written without a filler stores
\* bce = Class(owl:Thing), a lowered data cardinality written without a
\* filler stores dr = Datatype(rdfs:Literal), and a filler that is written
\* is stored as its own lowering; the lowered restriction always has a filler.
C10_CardinalityDefaults ==
    (lowered.op = "ClassExpression" /\ lowered.res.st = "ok") =>
        LET a   == lowered.args
            v   == lowered.res.val
            ctx == Context(build, mapping, debug_assertions)
        IN  /\ v.ce = a.rule
            /\ a.rule \in ObjectCardinalities =>
                   /\ "bce" \in DOMAIN v
                   /\ a.filler = <<>> => (v.bce = ThingClass /\ OWL_Thing \in build)
                   /\ a.filler # <<>> =>
                          v.bce = ClassExpression_from_pair(
                                      Layout(a.filler[1], 0), ctx).val
            /\ a.rule \in DataCardinalities =>
                   /\ "dr" \in DOMAIN v
                   /\ a.filler = <<>> =>
                          (v.dr = LiteralDatatype /\ RDFS_Literal \in build)
                   /\ a.filler # <<>> =>
                          v.dr = DataRange_from_pair(Layout(a.filler[1], 0), ctx).val

\* C10 witness: ObjectMinCardinality(2 <ex p>) was lowered with success from
\* an empty store, which now holds owl:Thing for the filler.
C10_Witness ==
    /\ lowered.op = "ClassExpression"
    /\ lowered.res.st = "ok"
    /\ lowered.args.rule = "ObjectMinCardinality"
    /\ lowered.args.filler = <<>>
    /\ lowered.res.val.ope.op.iri = EX_NS \o <<"p">>
    /\ lowered.res.val.bce = ThingClass
    /\ build = { EX_NS \o <<"p">>, OWL_Thing }

\* The value a class expression written alone lowers to in the context
LoweredClass(t) ==
    ClassExpression_from_pair(Layout(t, 0),
                              Context(build, mapping, debug_assertions)).val

\* C11: a lowered SubClassOf(sub, sup) stores the lowering of the second
\* written operand as the superclass and of the first as the subclass, and
\* not the other way round when the two differ.
C11_SubClassOfStoredOrder ==
    (lowered.op = "SubClassOf" /\ lowered.res.st = "ok") =>
        LET c == lowered.res.val.component
        IN  /\ c.ax = "SubClassOf"
            /\ c.sup = LoweredClass(lowered.args.sup)
            /\ c.sub = LoweredClass(lowered.args.sub)
            /\ LoweredClass(lowered.args.sub) # LoweredClass(lowered.args.sup) =>
                   <<c.sup, c.sub>> # <<LoweredClass(lowered.args.sub),
                                        LoweredClass(lowered.args.sup)>>

\* C11 witness: SubClassOf(<owl:Thing> ObjectComplementOf(<ex p>)) was
\* lowered: the complement is the superclass, owl:Thing the subclass.
C11_Witness ==
    /\ lowered.op = "SubClassOf"
    /\ lowered.res.st = "ok"
    /\ lowered.args.sub = Class_t(FullIRI_t(OWL_Thing))
    /\ lowered.res.val.component.sub = ThingClass
    /\ lowered.res.val.component.sup.ce = "ObjectComplementOf"

\* The entry a property expression written alone lowers to in the context
LoweredKey(t) ==
    IF t.rule = "ObjectPropertyExpression"
    THEN [pe |-> "ObjectPropertyExpression",
          v  |-> ObjectPropertyExpression_from_pair(
                     Layout(t, 0), Context(build, mapping, debug_assertions)).val]
    ELSE [pe |-> "DataProperty",
          v  |-> DataProperty_from_pair(
                     Layout(t, 0), Context(build, mapping, debug_assertions)).val]

\* C12: a lowered HasKey has one entry for each property child, in the
\* order written; an ObjectPropertyExpression child is an object-side entry
\* and a DataProperty child a data-side entry, each with the child's lowering.
C12_HasKeyPartition ==
    (lowered.op = "HasKey" /\ lowered.res.st = "ok") =>
        LET c     == lowered.res.val.component
            props == lowered.args.props
        IN  /\ c.ax = "HasKey"
            /\ c.ce = ThingClass
            /\ Len(c.vpe) = Len(props)
            /\ \A i \in DOMAIN props :
                   /\ props[i].rule \in {"ObjectPropertyExpression", "DataProperty"}
                   /\ c.vpe[i].pe = props[i].rule
                   /\ c.vpe[i] = LoweredKey(props[i])

\* C12 witness: HasKey(owl:Thing (<ex p> as a data property, then <ex p> as
\* an object property)) was lowered to a data-side entry followed by an
\* object-side entry.
C12_Witness ==
    /\ lowered.op = "HasKey"
    /\ lowered.res.st = "ok"
    /\ Len(lowered.args.props) = 2
    /\ lowered.args.props[1].rule = "DataProperty"
    /\ lowered.args.props[2].rule = "ObjectPropertyExpression"
    /\ lowered.res.val.component.vpe[1].pe = "DataProperty"
    /\ lowered.res.val.component.vpe[2].pe = "ObjectPropertyExpression"
    /\ lowered.res.val.component.vpe[2].v.ope = "ObjectProperty"

\* The number a text of decimal digits denotes, as a numeral
NumeralOf(str) == StripZeros([i \in DOMAIN str |-> Digits[str[i]]])

\* C14: lowering a NonNegativeInteger whose digits denote more than
\* u32::MAX returns an error and does not panic; lowering one within range
\* returns exactly the number the digits denote.
C14_OverflowIsParseError ==
    lowered.op = "u32" =>
        IF NumeralGreater(NumeralOf(lowered.args.str), U32_MAX)
        THEN lowered.res.st = "err"
        ELSE /\ lowered.res.st = "ok"
             /\ lowered.res.val = NumeralOf(lowered.args.str)

\* C14, what the code does: a numeral within range is returned as its value;
\* one above u32::MAX makes the expect panic.
C14_OverflowPanics ==
    lowered.op = "u32" =>
        IF NumeralGreater(NumeralOf(lowered.args.str), U32_MAX)
        THEN /\ lowered.res.st = "panic"
             /\ lowered.res.msg = "cannot fail with the right rule"
        ELSE /\ lowered.res.st = "ok"
             /\ lowered.res.val = NumeralOf(lowered.args.str)

\* C14 witness: 4294967296 was lowered and the lowering panicked.
C14_Witness ==
    /\ lowered.op = "u32"
    /\ lowered.args.str = <<"4", "2", "9", "4", "9", "6", "7", "2", "9", "6">>
    /\ lowered.res.st = "panic"

\* C15: lowering a DataSomeValuesFrom or DataAllValuesFrom whose second
\* child is a DataProperty returns an error that carries the span of the
\* construct, and does not panic.
C15_ChainIsUnsupportedError ==
    (/\ lowered.op = "DataValuesFrom"
     /\ lowered.args.tail[1].rule = "DataProperty"
     /\ lowered.pair.inner[1].inner[1].inner[1].inner[1].rule = "FullIRI") =>
        /\ lowered.res.st = "err"
        /\ lowered.res.err.span \in { lowered.pair.span,
                                      lowered.pair.inner[1].inner[2].span }

\* C15, what the code does: the first data property is lowered, and when it
\* lowers with success the chain makes unimplemented! panic.
C15_ChainPanics ==
    (/\ lowered.op = "DataValuesFrom"
     /\ lowered.args.tail[1].rule = "DataProperty") =>
        \/ /\ lowered.res.st = "panic"
           /\ lowered.res.msg = "not implemented"
        \/ /\ lowered.res.st = "err"
           /\ lowered.res.err.msg = "undefined prefix"
           /\ lowered.res.err.span = lowered.pair.inner[1].inner[1].inner[1].span

\* C15 witness: DataAllValuesFrom(<ex p> <ex p> rdfs:Literal) was lowered
\* and the lowering panicked after interning the first property.
C15_Witness ==
    /\ lowered.op = "DataValuesFrom"
    /\ lowered.args.rule = "DataAllValuesFrom"
    /\ lowered.args.tail[1].rule = "DataProperty"
    /\ lowered.res.st = "panic"
    /\ EX_NS \o <<"p">> \in build

\* The members of an axiom block that are no SWRL rule and no DGAxiom
StripSWRL(members) == SelectSeq(members, LAMBDA m : m.rule \notin {"Rule", "DGAxiom"})

\* The outcome of lowering [decls, header, members] from the store b
DocumentResult(decls, header, members, b) ==
    Document_from_pair(Layout(Document_t(decls, header, members), 0),
                       Context(b, mapping, debug_assertions))

\* The component an axiom written alone lowers to under the prefixes pm
LoweredAxiom(m, pm) ==
    AnnotatedComponent_from_pair(Layout(m, 0),
                                 Context(build, pm, debug_assertions)).val

\* C13: a document and the same document without its Rule and DGAxiom
\* members have the same outcome; when it is an ontology the two are equal
\* and hold the lowering of every axiom written before or after a dropped
\* member.
C13_SWRLDrop ==
    lowered.op = "Document" =>
        \A plain \in { DocumentResult(lowered.args.decls, lowered.args.header,
                                      StripSWRL(lowered.args.members),
                                      lowered.args.build) } :
            /\ plain.st = lowered.res.st
            /\ plain.build = lowered.res.build
            /\ lowered.res.st = "ok" =>
                   /\ plain.val = lowered.res.val
                   /\ \A i \in DOMAIN lowered.args.members :
                          lowered.args.members[i].rule = "Axiom" =>
                              LoweredAxiom(lowered.args.members[i],
                                           lowered.res.val.prefixes)
                                  \in lowered.res.val.ont

\* C13 witness: a document with an axiom, a rule or DGAxiom, and a second
\* axiom was lowered to an ontology of the identifier and the two axioms.
C13_Witness ==
    /\ lowered.op = "Document"
    /\ lowered.res.st = "ok"
    /\ Len(lowered.args.members) = 3
    /\ lowered.args.members[1].rule = "Axiom"
    /\ lowered.args.members[2].rule \in {"Rule", "DGAxiom"}
    /\ lowered.args.members[3].rule = "Axiom"
    /\ lowered.args.members[1] # lowered.args.members[3]
    /\ Cardinality(lowered.res.val.ont) = 3

\* C16: lowering a document ends in the ontology with every axiom lowered,
\* or in one returned error; the error is the one of the first node that
\* fails, nothing after that node is lowered and no ontology is returned.
C16_OntologyOrOneError ==
    lowered.op = "Document" =>
        /\ lowered.res.st \in {"ok", "err"}
        /\ lowered.res.st = "ok" =>
               \A i \in DOMAIN lowered.args.members :
                   lowered.args.members[i].rule = "Axiom" =>
                       LoweredAxiom(lowered.args.members[i], lowered.res.val.prefixes)
                           \in lowered.res.val.ont
        /\ lowered.res.st = "err" =>
               /\ "val" \notin DOMAIN lowered.res
               /\ \A k \in 0..Len(lowered.args.members) :
                      \A part \in { DocumentResult(lowered.args.decls,
                                                   lowered.args.header,
                                                   SubSeq(lowered.args.members, 1, k),
                                                   lowered.args.build) } :
                          part.st # "ok" => part = lowered.res

\* C16, what the code does: besides the ontology and the returned error
\* there is the panic; an error or a panic is the outcome of the shortest
\* failing beginning of the document, with the store as that left it.
C16_FirstFailureDecides ==
    lowered.op = "Document" =>
        /\ lowered.res.st \in {"ok", "err", "panic"}
        /\ lowered.res.st = "ok" =>
               \A i \in DOMAIN lowered.args.members :
                   lowered.args.members[i].rule = "Axiom" =>
                       LoweredAxiom(lowered.args.members[i], lowered.res.val.prefixes)
                           \in lowered.res.val.ont
        /\ lowered.res.st # "ok" => "val" \notin DOMAIN lowered.res
        /\ \A k \in 0..Len(lowered.args.members) :
               \A part \in { DocumentResult(lowered.args.decls, lowered.args.header,
                                            SubSeq(lowered.args.members, 1, k),
                                            lowered.args.build) } :
                   part.st # "ok" => part = lowered.res

\* C16 witness: a document whose first member lowers and whose second
\* member is the axiom over a data property chain was lowered, and the
\* lowering panicked.
C16_Witness ==
    /\ lowered.op = "Document"
    /\ Len(lowered.args.members) >= 2
    /\ lowered.args.members[1].rule = "Axiom"
    /\ DocumentResult(lowered.args.decls, lowered.args.header,
                      SubSeq(lowered.args.members, 1, 1), lowered.args.build).st = "ok"
    /\ lowered.res.st = "panic"
    /\ lowered.res.msg = "not implemented"

\* The bindings of a prefix map, [name, iri] with name None for the default
Bindings(pm) ==
    { [name |-> Some(n), iri |-> pm.map[n]] : n \in DOMAIN pm.map }
    \cup (IF pm.default.some THEN { [name |-> None, iri |-> pm.default.val] } ELSE {})

\* The declarations in the order p puts them
Permuted(decls, p) == [i \in DOMAIN decls |-> decls[p[i]]]

Orderings(n) == { p \in [1..n -> 1..n] : \A i, j \in 1..n : p[i] = p[j] => i = j }

\* The declarations no later declaration of the same name follows
LastDeclarations(decls) ==
    { decls[i] : i \in { i \in DOMAIN decls :
                           \A j \in DOMAIN decls : j > i => decls[j].name # decls[i].name } }

DistinctNames(decls) ==
    \A i, j \in DOMAIN decls : decls[i].name = decls[j].name => i = j

\* C20 as stated: the prefix map a document lowering returns holds exactly
\* the bindings of the document's declarations, and the declarations in any
\* other order give the same bindings.
C20_BindingsAreDeclarations ==
    (lowered.op = "Document" /\ lowered.res.st = "ok") =>
        /\ Bindings(lowered.res.val.prefixes) = SetOf(lowered.args.decls)
        /\ \A p \in Orderings(Len(lowered.args.decls)) :
               \A other \in { DocumentResult(Permuted(lowered.args.decls, p),
                                             lowered.args.header, lowered.args.members,
                                             lowered.args.build) } :
                   /\ other.st = "ok"
                   /\ Bindings(other.val.prefixes) = Bindings(lowered.res.val.prefixes)

\* C20: the prefix map a document lowering returns is built from an empty
\* map and holds, for every declared name, the binding of the last
\* declaration of that name (the empty name is the default); when no name
\* is declared twice these are exactly the declared bindings, and the
\* declarations in any other order give the same bindings.
C20_LastDeclarationWins ==
    (lowered.op = "Document" /\ lowered.res.st = "ok") =>
        /\ Bindings(lowered.res.val.prefixes) = LastDeclarations(lowered.args.decls)
        /\ DistinctNames(lowered.args.decls) =>
               /\ Bindings(lowered.res.val.prefixes) = SetOf(lowered.args.decls)
               /\ \A p \in Orderings(Len(lowered.args.decls)) :
                      \A other \in { DocumentResult(Permuted(lowered.args.decls, p),
                                                    lowered.args.header,
                                                    lowered.args.members,
                                                    lowered.args.build) } :
                          /\ other.st = "ok"
                          /\ Bindings(other.val.prefixes)
                                 = Bindings(lowered.res.val.prefixes)

\* C20 witness: with a default namespace in the caller's prefix map, a
\* document that declares ex and then its own default was lowered; the map
\* returned has the two declared bindings and not the caller's default.
C20_Witness ==
    /\ lowered.op = "Document"
    /\ lowered.res.st = "ok"
    /\ mapping.default = Some(OWL_NS)
    /\ lowered.args.decls = << [name |-> Some(<<"e", "x">>), iri |-> EX_NS],
                               [name |-> None, iri |-> EX_NS] >>
    /\ lowered.res.val.prefixes.default = Some(EX_NS)
    /\ DOMAIN lowered.res.val.prefixes.map = { <<"e", "x">> }

\* C17: in the simple ontology, is_subclass(sup, sub) holds exactly when
\* subclass(sup, sub) has been asserted, and exactly when sub is among
\* direct_subclass(sup); asserting (sup, sub) and (sub, subsub) makes neither
\* (sub, sup) nor (sup, subsub) hold.
C17_AssertedSubclassesOnly ==
    \A superclass \in SimpleClasses, sub \in SimpleClasses :
        /\ is_subclass(subclass, superclass, sub)
               <=> <<Simple_Class(superclass), Simple_Class(sub)>> \in asserted
        /\ is_subclass(subclass, superclass, sub)
               <=> Simple_Class(sub) \in direct_subclass(subclass, superclass)

\* C17 witness: subclass(super, sub) and subclass(sub, subsub) have been
\* asserted and nothing else; sub is the one direct subclass of super, and
\* the reverse and the transitive queries are false.
C17_Witness ==
    /\ asserted = { <<Simple_Class("http://www.example.com/super"),
                      Simple_Class("http://www.example.com/sub")>>,
                    <<Simple_Class("http://www.example.com/sub"),
                      Simple_Class("http://www.example.com/subsub")>> }
    /\ is_subclass(subclass, "http://www.example.com/super", "http://www.example.com/sub")
    /\ ~is_subclass(subclass, "http://www.example.com/sub", "http://www.example.com/super")
    /\ ~is_subclass(subclass, "http://www.example.com/super",
                    "http://www.example.com/subsub")
    /\ direct_subclass(subclass, "http://www.example.com/super")
           = { Simple_Class("http://www.example.com/sub") }

\* The positions of o that hold a component logically equal to ax
LogicalMatches(ax) == { i \in DOMAIN o : logical_eq(o[i], ax) }

\* C18: a plain insert never merges. Inserting a component that is not in the
\* ontology as it stands (in particular one that is logically equal to a
\* component already there and differs from it in its annotation set) makes
\* the count grow by one, leaves every component that was there as it was,
\* annotations included, and adds the component with its own annotation set;
\* so the two inserts of a logically-equal pair make the count grow by two.
C18_InsertNeverMerges ==
    [][ (last'.op = "insert" /\ \A i \in DOMAIN o : o[i] # last'.arg)
        => /\ Len(o') = Len(o) + 1
           /\ \A i \in DOMAIN o : o'[i] = o[i]
           /\ o'[Len(o')] = last'.arg
           /\ \A i \in LogicalMatches(last'.arg) :
                  /\ o'[i].ann = o[i].ann
                  /\ o'[i] # o'[Len(o')] ]_vars

\* Two logically-equal components with different annotation sets are in the
\* ontology, the second by the insert that has just returned.
C18_Witness ==
    /\ last.op = "insert"
    /\ Len(o) = 2
    /\ o[2] = last.arg
    /\ logical_eq(o[1], o[2])
    /\ o[1].ann = {"a1"}
    /\ o[2].ann = {"a2"}

\* C19: find_logically_equal_axiom returns, of the components logically equal
\* to its argument that are in the ontology, the one at the first position in
\* insertion order, and None when there is none; the call leaves the ontology
\* as it is, so the call repeated in the state it returns in gives the
\* component it has just returned.
C19_FirstInsertedMatch ==
    /\ \A ax \in MergeComponents :
           LET m == LogicalMatches(ax)
               r == find_logically_equal_axiom(o, ax)
           IN  IF m = {} THEN r = None
               ELSE \E i \in m : /\ \A j \in m : i <= j
                                 /\ r = Some(o[i])
    /\ last.op = "find_logically_equal_axiom"
           => last.ret = find_logically_equal_axiom(o, last.arg)

\* Two logically-equal components with different annotation sets are in the
\* ontology and find, asked with the second, has returned the first.
C19_Witness ==
    /\ last.op = "find_logically_equal_axiom"
    /\ Len(o) = 2
    /\ logical_eq(o[1], o[2])
    /\ o[1] # o[2]
    /\ last.arg = o[2]
    /\ last.ret = Some(o[1])

\* What one part of a payload stands for: the character of an escape, and any
\* other part as it is written
Unescaped(part) ==
    IF part = <<BACKSLASH, BACKSLASH>> THEN <<BACKSLASH>>
    ELSE IF part = <<BACKSLASH, QUOTE>> THEN <<QUOTE>>
    ELSE part

RECURSIVE Decoded(_)
Decoded(parts) ==
    IF parts = <<>> THEN <<>> ELSE Unescaped(Head(parts)) \o Decoded(Tail(parts))

\* C21: lowering a quoted string removes the two quotes and gives the payload
\* read from left to right one escape at a time: backslash-backslash is one
\* backslash, backslash-quote is one quote, everything else (another backslash
\* sequence included) is copied; a payload with neither escape comes back as
\* it is. This holds for every payload, an escaped backslash right before an
\* escaped quote included.
C21_UnescapeLeftToRight ==
    (phase = "done" /\ lowered.op = "String")
        => /\ lowered.res.st = "ok"
           /\ lowered.res.val = Decoded(lowered.args.parts)
           /\ (\A k \in DOMAIN lowered.args.parts :
                   Unescaped(lowered.args.parts[k]) = lowered.args.parts[k])
                  => lowered.res.val = Joined(lowered.args.parts)

\* An escaped backslash right before an escaped quote has been lowered to a
\* backslash and a quote.
C21_Witness ==
    /\ phase = "done"
    /\ lowered.op = "String"
    /\ lowered.args.parts = << <<BACKSLASH, BACKSLASH>>, <<BACKSLASH, QUOTE>>, <<"a">> >>
    /\ lowered.res = Ok(<<BACKSLASH, QUOTE, "a">>, build)

\* The lowering of the facet's IRI in the context the facet was lowered in
FacetIRI == IRI_from_pair(lowered.pair.inner[1],
                          Context(lowered.args.build, mapping, debug_assertions))

\* C22: lowering a facet succeeds exactly when the expanded IRI is the IRI of
\* one of the constraining facets of OWL 2, and gives that facet; for any other
\* IRI it returns the invalid-facet error with the span of the facet's IRI;
\* an error of the expansion of the IRI (an undefined prefix) is returned in
\* its place.
C22_FacetOrInvalidFacet ==
    (phase = "done" /\ lowered.op = "Facet")
        => /\ lowered.res.st = "ok"
                  <=> /\ FacetIRI.st = "ok"
                      /\ \E facet \in Facet_all : Facet_iri_str(facet) = FacetIRI.val
           /\ lowered.res.st = "ok"
                  => /\ lowered.res.val \in Facet_all
                     /\ Facet_iri_str(lowered.res.val) = FacetIRI.val
           /\ (FacetIRI.st = "ok" /\ lowered.res.st # "ok")
                  => lowered.res = Err(invalid_at("invalid facet",
                                                  lowered.pair.inner[1].span),
                                       FacetIRI.build)
           /\ FacetIRI.st # "ok" => lowered.res = FacetIRI

\* An abbreviated IRI has been lowered to the facet it expands to.
C22_Witness ==
    /\ phase = "done"
    /\ lowered.op = "Facet"
    /\ lowered.pair.inner[1].inner[1].rule = "AbbreviatedIRI"
    /\ lowered.res.st = "ok"
    /\ lowered.res.val = "Length"

\* A facet IRI under a prefix that is not declared has been refused with the
\* error of the expansion.
C22_WitnessUndefinedPrefix ==
    /\ phase = "done"
    /\ lowered.op = "Facet"
    /\ lowered.res.st = "err"
    /\ lowered.res.err.msg = "undefined prefix"

\* An annotation as written, without the annotations it carries
WithoutNested(ann) == Annotation_t(<<>>, ann.inner[2].inner[1], ann.inner[3].inner[1])

\* What the annotation without its own annotations lowers to in the context
LoweredBare(ann) ==
    Annotation_from_pair(Layout(WithoutNested(ann), 0),
                         Context(build, mapping, debug_assertions))

\* C23: the annotations an Annotation carries are read and dropped: the
\* lowered Annotation has a property and a value and nothing else, and is
\* what the annotation written without them lowers to; every annotation of
\* the annotation block of an axiom is in the annotation set of the lowered
\* component, and nothing else is.
C23_NestedDroppedListedKept ==
    /\ (lowered.op = "Annotation" /\ lowered.res.st = "ok")
           => /\ DOMAIN lowered.res.val = {"ap", "av"}
              /\ LoweredBare(lowered.args.ann).st = "ok"
              /\ lowered.res.val = LoweredBare(lowered.args.ann).val
    /\ (lowered.op = "SubClassOf" /\ lowered.res.st = "ok")
           => /\ \A k \in DOMAIN lowered.args.ann :
                     /\ LoweredBare(lowered.args.ann[k]).st = "ok"
                     /\ LoweredBare(lowered.args.ann[k]).val \in lowered.res.val.ann
              /\ \A a \in lowered.res.val.ann :
                     /\ DOMAIN a = {"ap", "av"}
                     /\ \E k \in DOMAIN lowered.args.ann :
                            a = LoweredBare(lowered.args.ann[k]).val

\* An axiom with two annotations, one of them carrying an annotation of its
\* own, has been lowered: the set of the component holds the two annotations
\* and the nested one is in none of them.
C23_Witness ==
    /\ lowered.op = "SubClassOf"
    /\ lowered.res.st = "ok"
    /\ Len(lowered.args.ann) = 2
    /\ lowered.args.ann[1].inner[1].inner # <<>>
    /\ lowered.args.ann[2].inner[1].inner = <<>>
    /\ Cardinality(lowered.res.val.ann) = 2
    /\ \A a \in lowered.res.val.ann : a.ap.iri # EX_NS \o <<"q">>

\* The lowering of the annotations an annotation pair carries, from the store
\* the operation started with
NestedResult(pair) ==
    Annotations_from_pair(pair.inner[1],
                          Context(lowered.args.build, mapping, debug_assertions))

\* The annotation pairs of a lowered axiom
AnnotationPairs == lowered.pair.inner[1].inner[1].inner

\* The lowering of the k-th annotation pair of the axiom
AnnotationResult(k) ==
    Annotation_from_pair(AnnotationPairs[k],
                         Context(lowered.args.build, mapping, debug_assertions))

\* The annotations the annotations of a member carry fail under the prefixes pm
NestedFails(member, pm) ==
    /\ member.rule = "Axiom"
    /\ \E k \in DOMAIN member.inner[1].inner[1].inner :
           Annotations_from_pair(
               Layout(member.inner[1].inner[1].inner[k].inner[1], 0),
               Context(build, pm, debug_assertions)).st = "err"

\* C30: the annotations an annotation carries are lowered before they are
\* dropped, and an error in one of them is not dropped: lowering the
\* Annotation returns that error; lowering an axiom with such an annotation
\* in its block fails, with the error of the first annotation of the block
\* that fails; lowering a document fails when the first member that does not
\* lower is an axiom with such an annotation, with the error of the document
\* cut after that member.
C30_NestedErrorsPropagate ==
    /\ (lowered.op = "Annotation" /\ NestedResult(lowered.pair).st = "err")
           => /\ lowered.res.st = "err"
              /\ lowered.res.err = NestedResult(lowered.pair).err
    /\ lowered.op = "SubClassOf"
           => \A k \in DOMAIN AnnotationPairs :
                  NestedResult(AnnotationPairs[k]).st = "err"
                      => /\ lowered.res.st = "err"
                         /\ (\A j \in 1..(k - 1) : AnnotationResult(j).st = "ok")
                                => lowered.res.err = NestedResult(AnnotationPairs[k]).err
    /\ lowered.op = "Document"
           => \A i \in DOMAIN lowered.args.members :
                  \A before \in { DocumentResult(lowered.args.decls, lowered.args.header,
                                                 SubSeq(lowered.args.members, 1, i - 1),
                                                 lowered.args.build) } :
                      (before.st = "ok"
                       /\ NestedFails(lowered.args.members[i], before.val.prefixes))
                          => /\ lowered.res.st = "err"
                             /\ lowered.res.err.msg
                                    \in {"undefined prefix", "missing default prefix"}
                             /\ "val" \notin DOMAIN lowered.res

\* An annotation that lowers when written alone has been refused for the
\* undeclared prefix of an annotation it carries.
C30_Witness ==
    /\ lowered.op = "Annotation"
    /\ LoweredBare(lowered.args.ann).st = "ok"
    /\ lowered.res.st = "err"
    /\ lowered.res.err.msg = "undefined prefix"

\* A document with a default namespace missing has been refused for the
\* annotation inside an annotation of its second member.
C30_WitnessDocument ==
    /\ lowered.op = "Document"
    /\ Len(lowered.args.members) >= 2
    /\ DocumentResult(lowered.args.decls, lowered.args.header,
                      SubSeq(lowered.args.members, 1, 1), lowered.args.build).st = "ok"
    /\ NestedFails(lowered.args.members[2],
                   DocumentResult(lowered.args.decls, lowered.args.header, <<>>,
                                  lowered.args.build).val.prefixes)
    /\ lowered.res.st = "err"
    /\ lowered.res.err.msg = "missing default prefix"

\* What an ontology of the simple model holds, without the allocations: the
\* strings of its identifier, classes, subclass axioms and object properties
Content(ontology) ==
    [iri   |-> IF ontology.id.iri.some THEN <<ontology.id.iri.val.str>> ELSE <<>>,
     viri  |-> IF ontology.id.viri.some THEN <<ontology.id.viri.val.str>> ELSE <<>>,
     class |-> { c.str : c \in ontology.class },
     subclass |-> { <<sc.superclass.c.str, sc.subclass.c.str>> :
                      sc \in ontology.subclass },
     object_property |-> { p.str : p \in ontology.object_property }]

\* The calls of a log that add to the ontology, without their order
Additions(calls) == { calls[i] : i \in DOMAIN calls } \ { [op |-> "iri"] }

\* C24: two ontologies of the simple model are equal exactly when their
\* identifiers, class sets, subclass axiom sets and object property sets are
\* equal; the stores they were built with and what these hold do not count,
\* and neither does the order of the calls that added the content.
C24_EqualByContent ==
    /\ Ontology_eq(onts[1], onts[2]) <=> Content(onts[1]) = Content(onts[2])
    /\ Ontology_eq(onts[1], onts[2]) <=> Ontology_eq(onts[2], onts[1])
    /\ Additions(log[1]) = Additions(log[2]) => Ontology_eq(onts[1], onts[2])

\* Two ontologies with a class each, allocated in different stores that hold
\* different strings, are equal.
C24_Witness ==
    /\ onts[1].class # {}
    /\ Ontology_eq(onts[1], onts[2])
    /\ onts[1].iri_build # onts[2].iri_build
    /\ \A c \in onts[1].class : c.store = 1
    /\ \A c \in onts[2].class : c.store = 2

\* Two ontologies that got the same two classes in opposite orders are equal.
C24_WitnessOrder ==
    /\ Len(log[1]) = 2
    /\ Len(log[2]) = 2
    /\ log[1][1] = log[2][2]
    /\ log[1][2] = log[2][1]
    /\ log[1][1] # log[1][2]
    /\ Ontology_eq(onts[1], onts[2])

\* Prefix maps a caller may hand in: none of the model's names bound, and
\* every one of them and the default bound
IncomingMappings ==
    { PrefixMapping_default,
      set_default(add_prefix(add_prefix(PrefixMapping_default, <<"e", "x">>, OWL_NS),
                             <<"o", "w", "l">>, XSD_NS), XSD_NS) }

\* The outcome of lowering the document of the state from the store b under
\* the incoming prefix map pm
DocumentResultIn(b, pm) ==
    Document_from_pair(Layout(Document_t(lowered.args.decls, lowered.args.header,
                                         lowered.args.members), 0),
                       Context(b, pm, debug_assertions))

\* An IRI string no document of the model holds
StrangerIRI == EX_NS \o <<"z">>

\* C25: a document is lowered against the prefixes it declares and no
\* others: under any other incoming prefix map the outcome (ontology and
\* prefix map, or error, and the IRIs interned) is the same; the IRIs are
\* interned in the store of the incoming context, which keeps what it held.
C25_IncomingMappingIgnored ==
    lowered.op = "Document" =>
        /\ \A pm \in IncomingMappings :
               DocumentResultIn(lowered.args.build, pm) = lowered.res
        /\ lowered.args.build \subseteq lowered.res.build
        /\ \A other \in { DocumentResultIn(lowered.args.build \cup {StrangerIRI},
                                           mapping) } :
               /\ other.st = lowered.res.st
               /\ other.build = lowered.res.build \cup {StrangerIRI}
               /\ lowered.res.st = "ok" => other.val = lowered.res.val
               /\ lowered.res.st = "err" => other.err = lowered.res.err
        /\ lowered.res.st = "ok" =>
               /\ lowered.res.val.prefixes.default.some
                      => \E i \in DOMAIN lowered.args.decls :
                             /\ ~lowered.args.decls[i].name.some
                             /\ lowered.args.decls[i].iri
                                    = lowered.res.val.prefixes.default.val
               /\ ~lowered.res.val.prefixes.default.some
                      => \A i \in DOMAIN lowered.args.decls :
                             lowered.args.decls[i].name.some

\* The caller's prefix map has a default namespace, the document declares
\* none, and an abbreviated IRI without a prefix in it was refused.
C25_Witness ==
    /\ lowered.op = "Document"
    /\ mapping.default.some
    /\ \A i \in DOMAIN lowered.args.decls : lowered.args.decls[i].name.some
    /\ lowered.res.st = "err"
    /\ lowered.res.err.msg = "missing default prefix"

\* The caller's prefix map has a default namespace, and the document was
\* lowered to an ontology under the default namespace it declares itself.
C25_WitnessOk ==
    /\ lowered.op = "Document"
    /\ mapping.default.some
    /\ lowered.res.st = "ok"
    /\ lowered.res.val.prefixes.default.some
    /\ lowered.res.val.prefixes.default # mapping.default
    /\ lowered.args.members # <<>>

\* The annotations attached in ont to components with the payload of ax
AnnotationsOf(ont, ax) == UNION { ont[i].ann : i \in SamePayload(ont, ax) }

\* No payload is held by two components of ont
OnePerPayload(ont) ==
    \A i, j \in DOMAIN ont : logical_eq(ont[i], ont[j]) => i = j

\* C26: an ontology built from the empty one by update_logically_equal_axiom
\* alone holds at most one component for a payload, and the next call keeps
\* it so: the component with the payload of its argument carries what was
\* attached to that payload before and the annotations of the argument, the
\* other payloads carry what they carried; two calls in either order leave
\* the same components. So each component carries the union of the
\* annotations passed with its payload, whatever the order of the calls.
C26_UpdateOnlyKeepsOnePerPayload ==
    /\ OnePerPayload(o)
    /\ \A a \in MergeComponents :
           \A r \in { update_logically_equal_axiom(o, a) } :
               /\ r.ret # "panic"
               /\ OnePerPayload(r.o)
               /\ Cardinality(SamePayload(r.o, a)) = 1
               /\ AnnotationsOf(r.o, a) = AnnotationsOf(o, a) \cup a.ann
               /\ \A b \in MergeComponents :
                      ~logical_eq(a, b) =>
                          /\ AnnotationsOf(r.o, b) = AnnotationsOf(o, b)
                          /\ Cardinality(SamePayload(r.o, b))
                                 = Cardinality(SamePayload(o, b))
               /\ \A b \in MergeComponents :
                      SetOf(update_logically_equal_axiom(r.o, b).o)
                          = SetOf(update_logically_equal_axiom(
                                      update_logically_equal_axiom(o, b).o, a).o)

\* Updates alone have built an ontology of two payloads; the last one met a
\* component annotated a1 and left it annotated a1 and a2.
C26_Witness ==
    /\ last.op = "update_logically_equal_axiom"
    /\ last.ret = "merged"
    /\ last.arg.ann = {"a2"}
    /\ Len(o) = 2
    /\ OnePerPayload(o)
    /\ \E i \in DOMAIN o : logical_eq(o[i], last.arg) /\ o[i].ann = {"a1", "a2"}

\* C27: update_logically_equal_axiom loses no annotation: what was attached
\* to a component of the ontology before the call, and what the argument
\* carries, is attached after the call to a component of the same kind and
\* payload.
C27_NoAnnotationLost ==
    \A a \in MergeComponents :
        \A r \in { update_logically_equal_axiom(o, a) } :
            /\ \A i \in DOMAIN o : \A x \in o[i].ann :
                   \E j \in DOMAIN r.o : /\ kind(r.o[j]) = kind(o[i])
                                         /\ logical_eq(r.o[j], o[i])
                                         /\ x \in r.o[j].ann
            /\ \A x \in a.ann :
                   \E j \in DOMAIN r.o : /\ kind(r.o[j]) = kind(a)
                                         /\ logical_eq(r.o[j], a)
                                         /\ x \in r.o[j].ann

\* After two plain inserts of one payload under different annotations, an
\* update with that payload has merged into one of the two and both
\* annotations are still attached to the payload.
C27_Witness ==
    /\ last.op = "update_logically_equal_axiom"
    /\ last.ret = "merged"
    /\ last.arg.ann = {}
    /\ Cardinality(SamePayload(o, last.arg)) = 2
    /\ AnnotationsOf(o, last.arg) = {"a1", "a2"}
    /\ \A i \in SamePayload(o, last.arg) : Cardinality(o[i].ann) = 1

\* The components of ont that are not logically equal to ax, in order
Others(ont, ax) == SelectSeq(ont, LAMBDA c : ~logical_eq(c, ax))

\* C28: update_logically_equal_axiom touches the matched component only: the
\* components not logically equal to the argument are there after the call
\* as they were, payload and annotations; when none is logically equal to the
\* argument the ontology after the call is the one before with the argument
\* added, its annotations as passed.
C28_UpdateFrame ==
    \A a \in MergeComponents :
        \A r \in { update_logically_equal_axiom(o, a) } :
            /\ Others(r.o, a) = Others(o, a)
            /\ SamePayload(o, a) = {} =>
                   /\ r.ret = "inserted"
                   /\ r.o = Append(o, a)
                   /\ r.o[Len(r.o)].ann = a.ann

\* An update has merged into a component while a component of another
\* payload, annotated, was in the ontology; that one is as it was.
C28_Witness ==
    /\ last.op = "update_logically_equal_axiom"
    /\ last.ret = "merged"
    /\ Len(o) = 2
    /\ ~logical_eq(o[1], last.arg)
    /\ o[1].ann = {"a1"}
    /\ o[2].ann = {"a1", "a2"}

\* C29: the removal inside update_logically_equal_axiom cannot fail: what
\* find_logically_equal_axiom returns is a component of the ontology, so
\* take of it on the same ontology returns it and the unwrap does not abort.
C29_TakeOfFoundSucceeds ==
    \A a \in MergeComponents :
        \A f \in { find_logically_equal_axiom(o, a) } :
            /\ f.some => /\ \E i \in DOMAIN o : o[i] = f.val
                         /\ take(o, f.val).ret = f
                         /\ Len(take(o, f.val).o) = Len(o) - 1
            /\ update_logically_equal_axiom(o, a).ret \in {"merged", "inserted"}
            /\ last.op = "update_logically_equal_axiom" => last.ret # "panic"

\* After a take, an update has found a component annotated otherwise than
\* its argument, taken it and merged.
C29_Witness ==
    /\ last.op = "update_logically_equal_axiom"
    /\ last.ret = "merged"
    /\ last.arg.ann = {"a1"}
    /\ Len(o) = 1
    /\ o[1].ann = {"a1", "a2"}

====
